---- MODULE Spec2Model ----
(***************************************************************************)
(* Model of kebbie's scoring engine (kebbie/scorer.py, kebbie/utils.py)    *)
(* and of the orchestration around it (kebbie/oracle.py).                  *)
(*                                                                         *)
(* Conventions                                                             *)
(*  - a Python str is a sequence of one-character strings;                 *)
(*  - Python's None used as a dictionary key is the string "None";         *)
(*  - a Python dict is a function whose DOMAIN is the set of its keys;     *)
(*  - a Counter (insertion ordered) is a sequence of [key, n] entries;     *)
(*  - a real number is an exact fraction <<numerator, denominator>>;       *)
(*  - a completion rate (a float rounded to 2 decimals) is the integer     *)
(*    number of hundredths.                                                *)
(***************************************************************************)
EXTENDS Integers, Sequences, FiniteSets, TLC

VARIABLES scorers, last, res, hist

vars == <<scorers, last, res, hist>>

None == "None"

----------------------------------------------------------------------------
(* Generic helpers for dictionaries and sequences                          *)

RECURSIVE SumSet(_, _)
SumSet(f, S) ==
  IF S = {} THEN 0
  ELSE LET x == CHOOSE y \in S : TRUE IN f[x] + SumSet(f, S \ {x})

RECURSIVE SeqSum(_)
SeqSum(s) == IF s = <<>> THEN 0 ELSE Head(s) + SeqSum(Tail(s))

SeqMin(s) == CHOOSE x \in {s[i] : i \in 1..Len(s)} : \A j \in 1..Len(s) : x <= s[j]

SeqMax(s) == CHOOSE x \in {s[i] : i \in 1..Len(s)} : \A j \in 1..Len(s) : x >= s[j]

Prefix(s, n) == SubSeq(s, 1, IF Len(s) < n THEN Len(s) ELSE n)

(* F applied to the value of v: a statement whose result is used by the    *)
(* statements that follow is executed once, before them                    *)
Strict(v, F(_)) == CHOOSE r \in {F(x) : x \in {v}} : TRUE

Contains(s, x) == \E i \in 1..Len(s) : s[i] = x

startswith(s, p) == Len(p) <= Len(s) /\ SubSeq(s, 1, Len(p)) = p

DictPut(d, k, v) == [x \in (DOMAIN d) \cup {k} |-> IF x = k THEN v ELSE d[x]]

DictPop(d, k) == [x \in (DOMAIN d) \ {k} |-> d[x]]

EmptyDict == [x \in {} |-> 0]

----------------------------------------------------------------------------
(* Count                                                                   *)

Count(c, c3, t) == [correct |-> c, correct_3 |-> c3, total |-> t]

Count0 == Count(0, 0, 0)

Count_add_swapped(a, b) ==
  Count(a.correct + b.correct, a.correct_3 + b.correct, a.total + b.total)

Count_add(a, b) ==
  Count(a.correct + b.correct, a.correct_3 + b.correct_3, a.total + b.total)

(* defaultdict(Count).__getitem__: the stored Count, or a fresh zero Count *)
DictGet(d, k) == IF k \in DOMAIN d THEN d[k] ELSE Count0

(* defaultdict of defaultdicts: the stored dictionary, or a fresh empty one *)
DictGetD(d, k) == IF k \in DOMAIN d THEN d[k] ELSE EmptyDict

RECURSIVE SumCounts(_, _)
SumCounts(f, S) ==
  IF S = {} THEN Count0
  ELSE LET x == CHOOSE y \in S : TRUE IN Count_add(SumCounts(f, S \ {x}), f[x])

----------------------------------------------------------------------------
(* Typo enumeration and the keys of the auto-correction dictionary         *)

Typo == {"DELETE_SPELLING_SYMBOL", "DELETE_SPACE", "DELETE_PUNCTUATION", "DELETE_CHAR",
         "ADD_SPELLING_SYMBOL", "ADD_SPACE", "ADD_PUNCTUATION", "ADD_CHAR",
         "SUBSTITUTE_CHAR", "SIMPLIFY_ACCENT", "SIMPLIFY_CASE", "TRANSPOSE_CHAR",
         "COMMON_TYPO"}

TKNone == [kind |-> "none", typo |-> "", n |-> 0]

TKTypo(t) == [kind |-> "typo", typo |-> t, n |-> 0]

TKInt(n) == [kind |-> "int", typo |-> "", n |-> n]

WITH_TYPO == "with_typo"

WITHOUT_TYPO == "without_typo"

----------------------------------------------------------------------------
(* Mistake counters: collections.Counter keyed by Mistake, whose equality  *)
(* and hash only look at `actual`.  A dict keeps the key object that was   *)
(* inserted first; assigning under an equal key only replaces the value.   *)

Mistake(actual, preds, context) == [actual |-> actual, preds |-> preds, context |-> context]

CounterIndex(c, m) ==
  IF \E i \in 1..Len(c) : c[i].key.actual = m.actual
  THEN CHOOSE i \in 1..Len(c) : c[i].key.actual = m.actual
  ELSE 0

CounterGet(c, actual) ==
  IF \E i \in 1..Len(c) : c[i].key.actual = actual
  THEN (c[CHOOSE i \in 1..Len(c) : c[i].key.actual = actual]).n
  ELSE 0

(* mutant: the element counted last replaces the key *)
CounterAdd_keep_last(c, m, n) ==
  IF CounterIndex(c, m) = 0 THEN Append(c, [key |-> m, n |-> n])
  ELSE [c EXCEPT ![CounterIndex(c, m)] = [key |-> m, n |-> @.n + n]]

(* Counter.update with one element or one (element, count) pair *)
CounterAdd(c, m, n) ==
  LET i == CounterIndex(c, m) IN
  IF i = 0 THEN Append(c, [key |-> m, n |-> n])
  ELSE [c EXCEPT ![i].n = @ + n]

(* Counter.update(other Counter): entries of other in their order *)
RECURSIVE CounterUpdate(_, _)
CounterUpdate(c, other) ==
  IF other = <<>> THEN c
  ELSE CounterUpdate(CounterAdd(c, Head(other).key, Head(other).n), Tail(other))

----------------------------------------------------------------------------
(* Scorer.__init__                                                         *)

RECURSIVE InitDomains(_, _)
InitDomains(sc, domains) ==
  IF domains = <<>> THEN sc
  ELSE LET d == Head(domains)
           acp_d == DictGetD(sc.acp_c, d)
           acp_dw == DictGetD(acp_d, WITH_TYPO)
           acr_d == DictGetD(sc.acr_c, d)
       IN InitDomains(
            [sc EXCEPT
               !.nwp_c = DictPut(@, d, DictGet(@, d)),
               !.acp_c = DictPut(@, d, DictPut(acp_d, WITH_TYPO, DictPut(acp_dw, 0, DictGet(acp_dw, 0)))),
               !.acr_c = DictPut(@, d, DictPut(acr_d, TKNone, DictGet(acr_d, TKNone))),
               !.swp_c = DictPut(@, d, DictGet(@, d))],
            Tail(domains))

Scorer_untracked_domains(domains, human_readable, track_mistakes) ==
  InitDomains(
    [human_readable |-> human_readable,
     track_mistakes |-> track_mistakes,
     nwp_c |-> EmptyDict, acp_c |-> EmptyDict, acr_c |-> EmptyDict, swp_c |-> EmptyDict,
     nwp_memories |-> <<>>, acp_memories |-> <<>>, acr_memories |-> <<>>, swp_memories |-> <<>>,
     nwp_runtimes |-> <<>>, acp_runtimes |-> <<>>, acr_runtimes |-> <<>>, swp_runtimes |-> <<>>,
     nwp_mistakes |-> <<>>, acp_mistakes |-> <<>>, acr_mistakes |-> <<>>, swp_mistakes |-> <<>>],
    <<>>)

Scorer(domains, human_readable, track_mistakes) ==
  InitDomains(
    [human_readable |-> human_readable,
     track_mistakes |-> track_mistakes,
     nwp_c |-> EmptyDict, acp_c |-> EmptyDict, acr_c |-> EmptyDict, swp_c |-> EmptyDict,
     nwp_memories |-> <<>>, acp_memories |-> <<>>, acr_memories |-> <<>>, swp_memories |-> <<>>,
     nwp_runtimes |-> <<>>, acp_runtimes |-> <<>>, acr_runtimes |-> <<>>, swp_runtimes |-> <<>>,
     nwp_mistakes |-> <<>>, acp_mistakes |-> <<>>, acr_mistakes |-> <<>>, swp_mistakes |-> <<>>],
    domains)

----------------------------------------------------------------------------
(* The four record operations.  Each follows the statements of the method  *)
(* in order: performances, correct, correct_3 / mistake, total.  Reading   *)
(* self.x_c[key] on a defaultdict creates the zero Count when missing.     *)

RecordPerf(list, x) == IF x >= 0 THEN Append(list, x) ELSE list

(* mutant: the expected word at any rank *)
IsCorrect_any_rank(true_word, predicted_words) == Contains(predicted_words, true_word)

IsCorrect(true_word, predicted_words) ==
  Len(predicted_words) > 0 /\ predicted_words[1] = true_word

IsCorrect3_off_by_one(true_word, predicted_words) == Contains(Prefix(predicted_words, 4), true_word)

IsCorrect3(true_word, predicted_words) == Contains(Prefix(predicted_words, 3), true_word)

(* the three count statements applied to the addressed Count c *)
RecordCount(c, true_word, predicted_words) ==
  LET c1 == IF IsCorrect(true_word, predicted_words) THEN [c EXCEPT !.correct = @ + 1] ELSE c
      c2 == IF IsCorrect3(true_word, predicted_words) THEN [c1 EXCEPT !.correct_3 = @ + 1] ELSE c1
  IN [c2 EXCEPT !.total = @ + 1]

RecordMistake(self, mistakes, true_word, predicted_words, context) ==
  IF ~IsCorrect3(true_word, predicted_words) /\ self.track_mistakes
  THEN CounterAdd(mistakes, Mistake(true_word, Prefix(predicted_words, 3), context), 1)
  ELSE mistakes

nwp(self, true_word, predicted_words, context, memory, runtime, domain) ==
  [self EXCEPT
     !.nwp_memories = RecordPerf(@, memory),
     !.nwp_runtimes = RecordPerf(@, runtime),
     !.nwp_c = DictPut(@, domain, RecordCount(DictGet(@, domain), true_word, predicted_words)),
     !.nwp_mistakes = RecordMistake(self, @, true_word, predicted_words, context)]

(* Python's round(x, 0) of the exact fraction num/den: half to even *)
RoundHalfEven(num, den) ==
  LET q == num \div den
      r2 == 2 * (num % den)
  IN IF r2 < den THEN q
     ELSE IF r2 > den THEN q + 1
     ELSE IF q % 2 = 0 THEN q ELSE q + 1

(* round(len(partial_word) / len(true_word), 2), in hundredths *)
completion_rate(partial_word, true_word) == RoundHalfEven(100 * Len(partial_word), Len(true_word))

acp(self, true_word, predicted_words, partial_word, context, memory, runtime, domain) ==
  LET has_typo == IF startswith(true_word, partial_word) THEN WITHOUT_TYPO ELSE WITH_TYPO
      rate == completion_rate(partial_word, true_word)
      d1 == DictGetD(self.acp_c, domain)
      d2 == DictGetD(d1, has_typo)
      c == RecordCount(DictGet(d2, rate), true_word, predicted_words)
  IN [self EXCEPT
        !.acp_memories = RecordPerf(@, memory),
        !.acp_runtimes = RecordPerf(@, runtime),
        !.acp_c = DictPut(@, domain, DictPut(d1, has_typo, DictPut(d2, rate, c))),
        !.acp_mistakes = RecordMistake(self, @, true_word, predicted_words, context \o partial_word)]

typo_type_of_length_only(typos) ==
  IF Len(typos) = 0 THEN TKNone ELSE TKInt(Len(typos))

typo_type_of(typos) ==
  IF Len(typos) = 0 THEN TKNone
  ELSE IF Len(typos) = 1 THEN TKTypo(typos[1])
  ELSE TKInt(Len(typos))

acr(self, true_word, predicted_words, typed_word, context, typos, memory, runtime, domain) ==
  LET typo_type == typo_type_of(typos)
      d1 == DictGetD(self.acr_c, domain)
      c == RecordCount(DictGet(d1, typo_type), true_word, predicted_words)
  IN [self EXCEPT
        !.acr_memories = RecordPerf(@, memory),
        !.acr_runtimes = RecordPerf(@, runtime),
        !.acr_c = DictPut(@, domain, DictPut(d1, typo_type, c)),
        !.acr_mistakes = RecordMistake(self, @, true_word, predicted_words, context \o typed_word)]

swp(self, true_word, predicted_words, context, memory, runtime, domain) ==
  [self EXCEPT
     !.swp_memories = RecordPerf(@, memory),
     !.swp_runtimes = RecordPerf(@, runtime),
     !.swp_c = DictPut(@, domain, RecordCount(DictGet(@, domain), true_word, predicted_words)),
     !.swp_mistakes = RecordMistake(self, @, true_word, predicted_words, context)]

----------------------------------------------------------------------------
(* Scorer.add: update(d1, d2) walks the keys of d2; a Count leaf is added  *)
(* to d1[k] (a zero Count when d1 has no k), a dictionary is recursed into *)
(* d1[k] (an empty dictionary when d1 has no k).                           *)

RECURSIVE update1(_, _, _)
update1(d1, d2, keys) ==
  IF keys = {} THEN d1
  ELSE LET k == CHOOSE x \in keys : TRUE
       IN update1(DictPut(d1, k, Count_add(DictGet(d1, k), d2[k])), d2, keys \ {k})

RECURSIVE update2(_, _, _)
update2(d1, d2, keys) ==
  IF keys = {} THEN d1
  ELSE LET k == CHOOSE x \in keys : TRUE
       IN update2(DictPut(d1, k, update1(DictGetD(d1, k), d2[k], DOMAIN d2[k])), d2, keys \ {k})

RECURSIVE update3(_, _, _)
update3(d1, d2, keys) ==
  IF keys = {} THEN d1
  ELSE LET k == CHOOSE x \in keys : TRUE
       IN update3(DictPut(d1, k, update2(DictGetD(d1, k), d2[k], DOMAIN d2[k])), d2, keys \ {k})

add_copy_paste(self, scorer) ==
  [self EXCEPT
     !.nwp_c = update1(@, scorer.nwp_c, DOMAIN scorer.nwp_c),
     !.acp_c = update3(@, scorer.acp_c, DOMAIN scorer.acp_c),
     !.acr_c = update2(@, scorer.acr_c, DOMAIN scorer.acr_c),
     !.swp_c = update1(@, scorer.swp_c, DOMAIN scorer.swp_c),
     !.nwp_memories = @ \o scorer.nwp_memories,
     !.acp_memories = @ \o scorer.acp_memories,
     !.acr_memories = @ \o scorer.acr_memories,
     !.swp_memories = @ \o scorer.swp_memories,
     !.nwp_runtimes = @ \o scorer.nwp_runtimes,
     !.acp_runtimes = @ \o scorer.acp_runtimes,
     !.acr_runtimes = @ \o scorer.acp_runtimes,
     !.swp_runtimes = @ \o scorer.swp_runtimes,
     !.nwp_mistakes = CounterUpdate(@, scorer.nwp_mistakes),
     !.acp_mistakes = CounterUpdate(@, scorer.acp_mistakes),
     !.acr_mistakes = CounterUpdate(@, scorer.acr_mistakes),
     !.swp_mistakes = CounterUpdate(@, scorer.swp_mistakes)]

add(self, scorer) ==
  [self EXCEPT
     !.nwp_c = update1(@, scorer.nwp_c, DOMAIN scorer.nwp_c),
     !.acp_c = update3(@, scorer.acp_c, DOMAIN scorer.acp_c),
     !.acr_c = update2(@, scorer.acr_c, DOMAIN scorer.acr_c),
     !.swp_c = update1(@, scorer.swp_c, DOMAIN scorer.swp_c),
     !.nwp_memories = @ \o scorer.nwp_memories,
     !.acp_memories = @ \o scorer.acp_memories,
     !.acr_memories = @ \o scorer.acr_memories,
     !.swp_memories = @ \o scorer.swp_memories,
     !.nwp_runtimes = @ \o scorer.nwp_runtimes,
     !.acp_runtimes = @ \o scorer.acp_runtimes,
     !.acr_runtimes = @ \o scorer.acr_runtimes,
     !.swp_runtimes = @ \o scorer.swp_runtimes,
     !.nwp_mistakes = CounterUpdate(@, scorer.nwp_mistakes),
     !.acp_mistakes = CounterUpdate(@, scorer.acp_mistakes),
     !.acr_mistakes = CounterUpdate(@, scorer.acr_mistakes),
     !.swp_mistakes = CounterUpdate(@, scorer.swp_mistakes)]

----------------------------------------------------------------------------
(* Scorer.set_domain: d[domain] = d.pop(None), for each structure holding  *)
(* a None key.                                                             *)

rebind_keep_existing(d, domain) ==
  IF None \in DOMAIN d
  THEN IF domain \in DOMAIN d THEN DictPop(d, None) ELSE DictPut(DictPop(d, None), domain, d[None])
  ELSE d

rebind(d, domain) ==
  IF None \in DOMAIN d THEN DictPut(DictPop(d, None), domain, d[None]) ELSE d

set_domain(self, domain) ==
  [self EXCEPT
     !.nwp_c = rebind(@, domain),
     !.acp_c = rebind(@, domain),
     !.acr_c = rebind(@, domain),
     !.swp_c = rebind(@, domain)]

----------------------------------------------------------------------------
(* Numbers of kebbie/utils.py.  A number is an exact fraction <<n, d>>     *)
(* with d > 0; a pair with d = 0 stands for a raised exception, which any  *)
(* arithmetic on it propagates.                                            *)

ZeroDivisionError == <<1, 0>>

ValueError == <<2, 0>>

IsErr(x) == x[2] = 0

F0 == <<0, 1>>

F1 == <<1, 1>>

IntF(n) == <<n, 1>>

Abs(n) == IF n < 0 THEN -n ELSE n

RECURSIVE GCD(_, _)
GCD(a, b) == IF b = 0 THEN a ELSE GCD(b, a % b)

Norm(x) ==
  IF x[2] = 0 THEN x
  ELSE LET g == GCD(Abs(x[1]), Abs(x[2]))
           sg == IF x[2] < 0 THEN -1 ELSE 1
       IN <<sg * (x[1] \div g), sg * (x[2] \div g)>>

FAdd(x, y) ==
  IF IsErr(x) THEN x ELSE IF IsErr(y) THEN y
  ELSE Norm(<<x[1] * y[2] + y[1] * x[2], x[2] * y[2]>>)

FMul(x, y) ==
  IF IsErr(x) THEN x ELSE IF IsErr(y) THEN y
  ELSE Norm(<<x[1] * y[1], x[2] * y[2]>>)

FDiv(x, y) ==
  IF IsErr(x) THEN x ELSE IF IsErr(y) THEN y
  ELSE IF y[1] = 0 THEN ZeroDivisionError
  ELSE Norm(<<x[1] * y[2], x[2] * y[1]>>)

FLt(x, y) == x[1] * y[2] < y[1] * x[2]

FLe(x, y) == x[1] * y[2] <= y[1] * x[2]

FMin(x, y) == IF FLe(x, y) THEN x ELSE y

FMax(x, y) == IF FLe(x, y) THEN y ELSE x

ExceptZeroDivision_reraise(x) == x

(* try: ... except ZeroDivisionError: return 0 *)
ExceptZeroDivision(x) == IF x = ZeroDivisionError THEN F0 ELSE x

RECURSIVE Pow10(_)
Pow10(k) == IF k = 0 THEN 1 ELSE 10 * Pow10(k - 1)

LogRange == -4 .. 6

(* x >= 10^e, for a positive fraction x *)
GePow10(x, e) ==
  IF e >= 0 THEN x[1] >= x[2] * Pow10(e) ELSE x[1] * Pow10(-e) >= x[2]

(* int(math.floor(math.log10(x))), for a positive fraction x *)
FloorLog10(x) == CHOOSE e \in LogRange : GePow10(x, e) /\ ~GePow10(x, e + 1)

(* round(x, ndigits): half to even at the requested decimal *)
PyRound(x, ndigits) ==
  IF ndigits >= 0
  THEN Norm(<<RoundHalfEven(x[1] * Pow10(ndigits), x[2]), Pow10(ndigits)>>)
  ELSE Norm(<<RoundHalfEven(x[1], x[2] * Pow10(-ndigits)) * Pow10(-ndigits), 1>>)

round_to_n(x, n) ==
  IF IsErr(x) THEN x
  ELSE IF x[1] = 0 THEN F0
  ELSE IF x[1] < 0 THEN ValueError
  ELSE PyRound(x, -FloorLog10(x) + (n - 1))

accuracy(tp, tn, fp, fn) == ExceptZeroDivision(FDiv(IntF(tp + tn), IntF(tp + tn + fp + fn)))

precision(tp, fp) == ExceptZeroDivision(FDiv(IntF(tp), IntF(tp + fp)))

recall(tp, fn) == ExceptZeroDivision(FDiv(IntF(tp), IntF(tp + fn)))

fbeta_unweighted(p, r, beta) ==
  LET b2 == FMul(beta, beta)
  IN ExceptZeroDivision(FDiv(FMul(FMul(FAdd(F1, b2), p), r), FAdd(p, r)))

fbeta(p, r, beta) ==
  LET b2 == FMul(beta, beta)
  IN ExceptZeroDivision(FDiv(FMul(FMul(FAdd(F1, b2), p), r), FAdd(FMul(b2, p), r)))

(* the unit loop shared by human_readable_memory / human_readable_runtime *)
RECURSIVE UnitLoop(_, _, _)
UnitLoop(x, units, lastUnit) ==
  IF units = <<>> THEN [kind |-> "str", value |-> x, unit |-> lastUnit]
  ELSE IF FLt(x, IntF(1000)) THEN [kind |-> "str", value |-> x, unit |-> Head(units)]
  ELSE UnitLoop(FDiv(x, IntF(1000)), Tail(units), lastUnit)

human_readable_memory(x) == UnitLoop(round_to_n(x, 3), <<"B", "KB", "MB", "GB">>, "TB")

human_readable_runtime(x) == UnitLoop(round_to_n(x, 3), <<"ns", "us", "ms">>, "s")

(* Count.__mul__: every field multiplied by the proportion, then round() *)
Count_mul(c, proportion) ==
  LET r(v) == LET x == FMul(IntF(v), proportion) IN RoundHalfEven(x[1], x[2])
  IN Count(r(c.correct), r(c.correct_3), r(c.total))

----------------------------------------------------------------------------
(* Scorer.score and its helpers                                            *)

DEFAULT_BETA == <<9, 10>>

_score_accuracy(c) ==
  [accuracy |-> IF c.total # 0 THEN round_to_n(FDiv(IntF(c.correct), IntF(c.total)), 2) ELSE F0,
   top3_accuracy |-> IF c.total # 0 THEN round_to_n(FDiv(IntF(c.correct_3), IntF(c.total)), 2) ELSE F0,
   n |-> c.total]

_score_precision_recall(no_typo_c, typo_c, beta) ==
  LET tn == no_typo_c.correct
      fp == no_typo_c.total - no_typo_c.correct
      tp == typo_c.correct
      fn == typo_c.total - typo_c.correct
      tn_3 == no_typo_c.correct_3
      fp_3 == no_typo_c.total - no_typo_c.correct_3
      tp_3 == typo_c.correct_3
      fn_3 == typo_c.total - typo_c.correct_3
      p == precision(tp, fp)
      r == recall(tp, fn)
      p_3 == precision(tp_3, fp_3)
      r_3 == recall(tp_3, fn_3)
  IN [accuracy |-> round_to_n(accuracy(tp, tn, fp, fn), 2),
      precision |-> round_to_n(p, 2),
      recall |-> round_to_n(r, 2),
      fscore |-> round_to_n(fbeta(p, r, beta), 2),
      top3_accuracy |-> round_to_n(accuracy(tp_3, tn_3, fp_3, fn_3), 2),
      top3_precision |-> round_to_n(p_3, 2),
      top3_recall |-> round_to_n(r_3, 2),
      top3_fscore |-> round_to_n(fbeta(p_3, r_3, beta), 2),
      n_typo |-> typo_c.total,
      n |-> no_typo_c.total + typo_c.total]

(* statistics.mean / min / max of a sample list, 0 for an empty list *)
PerfMean(l) == IF l # <<>> THEN FDiv(IntF(SeqSum(l)), IntF(Len(l))) ELSE F0

PerfMin(l) == IF l # <<>> THEN IntF(SeqMin(l)) ELSE F0

PerfMax(l) == IF l # <<>> THEN IntF(SeqMax(l)) ELSE F0

(* every entry goes through human_readable_memory / human_readable_runtime; *)
(* self.human_readable is not read                                          *)
_score_performances(self, memories, runtimes) ==
  [mean_memory |-> human_readable_memory(PerfMean(memories)),
   min_memory |-> human_readable_memory(PerfMin(memories)),
   max_memory |-> human_readable_memory(PerfMax(memories)),
   mean_runtime |-> human_readable_runtime(PerfMean(runtimes)),
   fastest_runtime |-> human_readable_runtime(PerfMin(runtimes)),
   slowest_runtime |-> human_readable_runtime(PerfMax(runtimes))]

(* key paths down to the Count leaves of the nested dictionaries *)
AcpLeaves(acp_c) ==
  UNION {UNION {{<<d, h, k>> : k \in DOMAIN acp_c[d][h]} : h \in DOMAIN acp_c[d]} : d \in DOMAIN acp_c}

AcrLeaves(acr_c) == UNION {{<<d, t>> : t \in DOMAIN acr_c[d]} : d \in DOMAIN acr_c}

(* sum of the Count leaves whose key path is in S *)
AcpSum(acp_c, S) == SumCounts([l \in S |-> acp_c[l[1]][l[2]][l[3]]], S)

AcrSum(acr_c, S) == SumCounts([l \in S |-> acr_c[l[1]][l[2]]], S)

(* the four tasks of the result dictionary *)
score_nwp(self) ==
  LET per == self.nwp_c
      total_c == SumCounts(per, DOMAIN per)
  IN [score |-> _score_accuracy(total_c),
      per_domain |-> [k \in DOMAIN per |-> _score_accuracy(per[k])],
      performances |-> _score_performances(self, self.nwp_memories, self.nwp_runtimes)]

(* mutant: the buckets leave their lower bounds out *)
score_acp_open_bounds(self) ==
  LET L == AcpLeaves(self.acp_c)
      doms == {l[1] : l \in L}
      per == [d \in doms |-> AcpSum(self.acp_c, {l \in L : l[1] = d})]
      total_c == SumCounts(per, doms)
      rate(P(_)) == _score_accuracy(AcpSum(self.acp_c, {l \in L : P(l[3])}))
      b1(k) == k < 25
      b2(k) == 25 < k /\ k < 50
      b3(k) == 50 <= k /\ k < 75
      b4(k) == 75 < k
  IN [score |-> _score_accuracy(total_c),
      per_domain |-> [k \in doms |-> _score_accuracy(per[k])],
      per_completion_rate |-> [lt25 |-> rate(b1), f25to50 |-> rate(b2), f50to75 |-> rate(b3), gt75 |-> rate(b4)],
      per_other |-> [k \in {WITHOUT_TYPO, WITH_TYPO} |->
                       _score_accuracy(AcpSum(self.acp_c, {l \in L : l[2] = k}))],
      performances |-> _score_performances(self, self.acp_memories, self.acp_runtimes)]

score_acp(self) ==
  LET L == AcpLeaves(self.acp_c)
      doms == {l[1] : l \in L}
      per == [d \in doms |-> AcpSum(self.acp_c, {l \in L : l[1] = d})]
      total_c == SumCounts(per, doms)
      rate(P(_)) == _score_accuracy(AcpSum(self.acp_c, {l \in L : P(l[3])}))
      b1(k) == k < 25
      b2(k) == 25 <= k /\ k < 50
      b3(k) == 50 <= k /\ k < 75
      b4(k) == 75 <= k
  IN [score |-> _score_accuracy(total_c),
      per_domain |-> [k \in doms |-> _score_accuracy(per[k])],
      per_completion_rate |-> [lt25 |-> rate(b1), f25to50 |-> rate(b2), f50to75 |-> rate(b3), gt75 |-> rate(b4)],
      per_other |-> [k \in {WITHOUT_TYPO, WITH_TYPO} |->
                       _score_accuracy(AcpSum(self.acp_c, {l \in L : l[2] = k}))],
      performances |-> _score_performances(self, self.acp_memories, self.acp_runtimes)]

(* per_domain of auto-correction: one entry per key of no_typo_per *)
score_acr_per_domain(self, L, beta) ==
  [k \in {l[1] : l \in {x \in L : x[2] = TKNone}} |->
     _score_precision_recall(AcrSum(self.acr_c, {l \in L : l[1] = k /\ l[2] = TKNone}),
                             AcrSum(self.acr_c, {l \in L : l[1] = k /\ l[2] # TKNone}), beta)]

score_acr(self, beta) ==
  LET L == AcrLeaves(self.acr_c)
      no_typo_total_c == AcrSum(self.acr_c, {l \in L : l[2] = TKNone})
      typo_total_c == AcrSum(self.acr_c, {l \in L : l[2] # TKNone})
      no_typo_c == no_typo_total_c
      tkeys == {l[2] : l \in {x \in L : x[2] # TKNone}}
      typo_per == [t \in tkeys |-> AcrSum(self.acr_c, {l \in L : l[2] = t})]
      proportion == [t \in tkeys |-> FDiv(IntF(typo_per[t].total), IntF(typo_total_c.total))]
      raised == \E t \in tkeys : IsErr(proportion[t])
      no_typo_per == [t \in tkeys |-> Count_mul(no_typo_c, proportion[t])]
      singles == {t \in tkeys : t.kind = "typo"}
      many == {t \in tkeys : t.kind = "int" /\ t.n > 2}
      (* no_typo_per[t] and typo_per[t] of a Typo never recorded: Count() *)
      unseen == _score_precision_recall(Count0, Count0, beta)
  IN IF raised THEN [raised |-> TRUE]
     ELSE
     [raised |-> FALSE,
      score |-> _score_precision_recall(no_typo_total_c, typo_total_c, beta),
      per_domain |-> score_acr_per_domain(self, L, beta),
      per_typo_type |-> [t \in Typo |-> IF TKTypo(t) \in tkeys
                                         THEN _score_precision_recall(no_typo_per[TKTypo(t)],
                                                                      typo_per[TKTypo(t)], beta)
                                         ELSE unseen],
      per_number_of_typos |->
        [one |-> _score_precision_recall(SumCounts(no_typo_per, singles), SumCounts(typo_per, singles), beta),
         two |-> _score_precision_recall(DictGet(no_typo_per, TKInt(2)), DictGet(typo_per, TKInt(2)), beta),
         threeplus |-> _score_precision_recall(SumCounts(no_typo_per, many), SumCounts(typo_per, many), beta)],
      performances |-> _score_performances(self, self.acr_memories, self.acr_runtimes)]

score_swp(self) ==
  LET per == self.swp_c
      total_c == SumCounts(per, DOMAIN per)
  IN [score |-> _score_accuracy(total_c),
      per_domain |-> [k \in DOMAIN per |-> _score_accuracy(per[k])],
      performances |-> _score_performances(self, self.swp_memories, self.swp_runtimes)]

one_score(results) ==
  FAdd(FAdd(FMul(<<15, 100>>, results.next_word_prediction.score.top3_accuracy),
            FMul(<<20, 100>>, results.auto_completion.score.top3_accuracy)),
       FAdd(FMul(<<40, 100>>, results.auto_correction.score.fscore),
            FMul(<<25, 100>>, results.swipe_resolution.score.accuracy)))

score(self, beta) ==
  LET acr_res == score_acr(self, beta)
      results == [next_word_prediction |-> score_nwp(self),
                  auto_completion |-> score_acp(self),
                  auto_correction |-> acr_res,
                  swipe_resolution |-> score_swp(self)]
  IN IF acr_res.raised THEN [raised |-> TRUE]
     ELSE [raised |-> FALSE,
           next_word_prediction |-> results.next_word_prediction,
           auto_completion |-> results.auto_completion,
           auto_correction |-> results.auto_correction,
           swipe_resolution |-> results.swipe_resolution,
           overall_score |-> one_score(results)]

----------------------------------------------------------------------------
(* State of the model                                                      *)
(*   scorers : id -> Scorer object                                         *)
(*   last    : the operation that produced the current state, with its     *)
(*             arguments                                                   *)
(*   res     : the dictionary returned by the last score() call            *)
(*   hist    : how many record / add calls were made, whether the          *)
(*             per-sentence scorer was merged, and the domain list each    *)
(*             scorer was constructed with                                 *)

W1 == <<"o", "k", "a", "y">>

W2 == <<"k", "o">>

(* one corrector answer: (true_word, predicted_words, memory, runtime) *)
Answer(t, p, m, r) == [true_word |-> t, predicted_words |-> p, memory |-> m, runtime |-> r]

AnsCorrect == Answer(W1, <<W1>>, 1500, 623)

AnsTop3 == Answer(W1, <<W2, W2, W1>>, -1, 623)

AnsFourth == Answer(W1, <<W2, W2, W2, W1>>, 47, -1)

AnsEmpty == Answer(W2, <<>>, -1, -1)

Context == <<"a", " ">>

DomainNames == {"d1", "d2"}

Betas == {DEFAULT_BETA}

NoOp == [op |-> "init"]

NoRes == [raised |-> FALSE, none |-> TRUE]

ScorerIds == {"acc", "scr"}

(* the constructions used by Oracle.test and by the test-suite *)
Construction(acc, scr, hr, tm) ==
  [acc |-> acc, scr |-> scr, human_readable |-> hr, track_mistakes |-> tm]

Constructions ==
  { Construction(<<"d1", "d2">>, <<None>>, TRUE, FALSE),
    Construction(<<>>, <<>>, FALSE, TRUE) }

Construct(c) ==
  /\ scorers = [s \in ScorerIds |-> Scorer(c[s], c.human_readable, c.track_mistakes)]
  /\ last = NoOp
  /\ res = NoRes
  /\ hist = [rec |-> 0, add |-> 0, tagged |-> FALSE, merged |-> FALSE,
             domains |-> [s \in ScorerIds |-> c[s]]]

----------------------------------------------------------------------------
(* Actions: one per Scorer method.  A record action draws its arguments    *)
(* from the given set of inputs; max bounds the number of recorded         *)
(* outcomes.                                                               *)

In(a, domain) == [a |-> a, domain |-> domain]

InAcp(a, partial_word, domain) == [a |-> a, partial_word |-> partial_word, domain |-> domain]

InAcr(a, typos, domain) == [a |-> a, typos |-> typos, domain |-> domain]

Nwp(s, inputs, max) ==
  /\ hist.rec < max
  /\ ~hist.merged /\ ~hist.tagged
  /\ \E i \in inputs :
       /\ scorers' = [scorers EXCEPT ![s] = nwp(@, i.a.true_word, i.a.predicted_words, Context,
                                                  i.a.memory, i.a.runtime, i.domain)]
       /\ last' = [op |-> "nwp", s |-> s, true_word |-> i.a.true_word,
                   predicted_words |-> i.a.predicted_words, domain |-> i.domain]
  /\ res' = NoRes
  /\ hist' = [hist EXCEPT !.rec = @ + 1]

Acp(s, inputs, max) ==
  /\ hist.rec < max
  /\ ~hist.merged /\ ~hist.tagged
  /\ \E i \in inputs :
       /\ scorers' = [scorers EXCEPT ![s] = acp(@, i.a.true_word, i.a.predicted_words, i.partial_word, Context,
                                                  i.a.memory, i.a.runtime, i.domain)]
       /\ last' = [op |-> "acp", s |-> s, true_word |-> i.a.true_word,
                   predicted_words |-> i.a.predicted_words, domain |-> i.domain,
                   partial_word |-> i.partial_word]
  /\ res' = NoRes
  /\ hist' = [hist EXCEPT !.rec = @ + 1]

Acr(s, inputs, max) ==
  /\ hist.rec < max
  /\ ~hist.merged /\ ~hist.tagged
  /\ \E i \in inputs :
       /\ scorers' = [scorers EXCEPT ![s] = acr(@, i.a.true_word, i.a.predicted_words, i.a.true_word, Context,
                                                  i.typos, i.a.memory, i.a.runtime, i.domain)]
       /\ last' = [op |-> "acr", s |-> s, true_word |-> i.a.true_word,
                   predicted_words |-> i.a.predicted_words, domain |-> i.domain, typos |-> i.typos]
  /\ res' = NoRes
  /\ hist' = [hist EXCEPT !.rec = @ + 1]

Swp(s, inputs, max) ==
  /\ hist.rec < max
  /\ ~hist.merged /\ ~hist.tagged
  /\ \E i \in inputs :
       /\ scorers' = [scorers EXCEPT ![s] = swp(@, i.a.true_word, i.a.predicted_words, Context,
                                                  i.a.memory, i.a.runtime, i.domain)]
       /\ last' = [op |-> "swp", s |-> s, true_word |-> i.a.true_word,
                   predicted_words |-> i.a.predicted_words, domain |-> i.domain]
  /\ res' = NoRes
  /\ hist' = [hist EXCEPT !.rec = @ + 1]

Add(s, o, max) ==
  /\ s # o
  /\ ~hist.merged
  /\ hist.add < max
  /\ scorers' = [scorers EXCEPT ![s] = add(@, scorers[o])]
  /\ last' = [op |-> "add", s |-> s, other |-> o]
  /\ res' = NoRes
  /\ hist' = [hist EXCEPT !.add = @ + 1, !.merged = TRUE]

(* the next sentence gets a Scorer of its own (oracle.py, tester) *)
New(s, max) ==
  /\ hist.merged
  /\ hist.rec < max
  /\ scorers' = [scorers EXCEPT ![s] = Scorer(hist.domains[s], @.human_readable, @.track_mistakes)]
  /\ last' = [op |-> "new", s |-> s]
  /\ res' = NoRes
  /\ hist' = [hist EXCEPT !.merged = FALSE, !.tagged = FALSE]

SetDomain(s) ==
  /\ ~hist.merged /\ ~hist.tagged
  /\ \E domain \in DomainNames :
       /\ scorers' = [scorers EXCEPT ![s] = set_domain(@, domain)]
       /\ last' = [op |-> "set_domain", s |-> s, domain |-> domain]
  /\ res' = NoRes
  /\ hist' = [hist EXCEPT !.tagged = TRUE]

(* a second set_domain call right after the first *)
SetDomainAgain(s) ==
  /\ last.op = "set_domain"
  /\ last.s = s
  /\ \E domain \in DomainNames :
       /\ scorers' = [scorers EXCEPT ![s] = set_domain(@, domain)]
       /\ last' = [op |-> "set_domain_again", s |-> s, domain |-> domain]
  /\ res' = NoRes
  /\ UNCHANGED hist

(* score() is asked once, at the end of a scorer's life *)
Score(s) ==
  /\ last.op # "score"
  /\ \E beta \in Betas :
       /\ res' = score(scorers[s], beta)
       /\ last' = [op |-> "score", s |-> s, beta |-> beta]
  /\ UNCHANGED <<scorers, hist>>

----------------------------------------------------------------------------
(* Spec: the life cycle of section 3 with its final score().  The          *)
(* per-sentence scorer "scr" is populated, re-tagged and merged into the   *)
(* accumulator "acc"; score() ends the run.  The accumulator only changes  *)
(* when a scorer is merged into it, so its score() is asked then.          *)

MaxRecords == 2

MaxAdds == 2

Init == \E c \in Constructions : Construct(c)

Alive == last.op # "score"

Next ==
  \/ Alive /\ Nwp("scr", {In(AnsCorrect, None), In(AnsFourth, "d1")}, MaxRecords)
  \/ Alive /\ Acp("scr", {InAcp(AnsCorrect, <<"o">>, None), InAcp(AnsFourth, <<"o", "j", "a">>, "d1")}, MaxRecords)
  \/ Alive /\ Acr("scr", {InAcr(AnsCorrect, <<>>, None), InAcr(AnsFourth, <<"DELETE_CHAR">>, None),
                          InAcr(AnsCorrect, <<"DELETE_CHAR", "ADD_CHAR">>, "d1")}, MaxRecords)
  \/ Alive /\ Swp("scr", {In(AnsCorrect, "d1"), In(AnsFourth, None)}, MaxRecords)
  \/ Alive /\ Add("acc", "scr", MaxAdds)
  \/ Alive /\ New("scr", MaxRecords)
  \/ Alive /\ SetDomain("scr")
  \/ last.op \in {"init", "add"} /\ Score("acc")
  \/ last.op # "add" /\ Score("scr")

Spec == Init /\ [][Next]_vars

----------------------------------------------------------------------------
(* SpecOps: the record methods on every kind of prediction list, with      *)
(* set_domain and add, and no score().                                     *)

MaxOpsRecords == 2

MaxOpsAdds == 2

OpsIn == {In(AnsCorrect, None), In(AnsFourth, "d1"), In(AnsEmpty, None)}

OpsInSwp == {In(AnsEmpty, None), In(AnsCorrect, "d1"), In(AnsTop3, None)}

OpsInAcp ==
  {InAcp(AnsTop3, <<"o">>, None), InAcp(AnsFourth, <<"o", "j", "a">>, "d1"),
   InAcp(AnsEmpty, <<"o">>, None)}

OpsInAcr ==
  {InAcr(AnsCorrect, <<>>, None), InAcr(AnsFourth, <<"DELETE_CHAR">>, None),
   InAcr(AnsEmpty, <<"DELETE_CHAR", "ADD_CHAR">>, "d1")}

NextOps ==
  \/ Nwp("scr", OpsIn, MaxOpsRecords)
  \/ Acp("scr", OpsInAcp, MaxOpsRecords)
  \/ Acr("scr", OpsInAcr, MaxOpsRecords)
  \/ Swp("scr", OpsInSwp, MaxOpsRecords)
  \/ Add("acc", "scr", MaxOpsAdds)
  \/ New("scr", MaxOpsRecords)
  \/ SetDomain("scr")
  \/ SetDomainAgain("scr")

SpecOps == Init /\ [][NextOps]_vars

----------------------------------------------------------------------------
(* SpecAcr: auto-correction outcomes only, over every kind of typo list,   *)
(* filed under a domain and scored.                                        *)

MaxAcrRecords == 3

AcrCorrect == Answer(W1, <<W1>>, -1, -1)

AcrTop3 == Answer(W1, <<W2, W2, W1>>, -1, -1)

AcrWrong == Answer(W1, <<W2>>, -1, -1)

AcrTypos ==
  {<<>>, <<"DELETE_CHAR">>, <<"ADD_CHAR">>, <<"DELETE_CHAR", "ADD_CHAR">>,
   <<"DELETE_CHAR", "ADD_CHAR", "ADD_CHAR">>}

AcrIn == {InAcr(a, t, None) : a \in {AcrCorrect, AcrTop3, AcrWrong}, t \in AcrTypos}

InitAcr == Construct(Construction(<<"d1">>, <<None>>, TRUE, FALSE))

NextAcr ==
  \/ Alive /\ Acr("scr", AcrIn, MaxAcrRecords)
  \/ Alive /\ SetDomain("scr")
  \/ Score("scr")

SpecAcr == InitAcr /\ [][NextAcr]_vars

----------------------------------------------------------------------------
(* SpecMerge: the per-sentence scorers of Oracle.test are built one after  *)
(* the other, tagged with their domain, then added to the accumulator acc  *)
(* in any order, and to a second accumulator alt in the order they were    *)
(* built; both accumulators are scored.                                    *)

MaxMergeRecords == 2

MergeSentences == <<"scr", "nxt", "thd">>

Accumulators == {"acc", "alt"}

MergeIn ==
  {[op |-> "nwp", a |-> AnsCorrect, partial_word |-> <<>>, typos |-> <<>>],
   [op |-> "acp", a |-> AnsTop3, partial_word |-> <<"o">>, typos |-> <<>>],
   [op |-> "acr", a |-> AnsFourth, partial_word |-> <<>>, typos |-> <<"DELETE_CHAR">>]}

(* the record call of tester for one prediction *)
Apply(self, i) ==
  IF i.op = "nwp"
    THEN nwp(self, i.a.true_word, i.a.predicted_words, Context, i.a.memory, i.a.runtime, None)
  ELSE IF i.op = "acp"
    THEN acp(self, i.a.true_word, i.a.predicted_words, i.partial_word, Context, i.a.memory, i.a.runtime, None)
  ELSE IF i.op = "acr"
    THEN acr(self, i.a.true_word, i.a.predicted_words, i.a.true_word, Context, i.typos,
             i.a.memory, i.a.runtime, None)
  ELSE swp(self, i.a.true_word, i.a.predicted_words, Context, i.a.memory, i.a.runtime, None)

InitMerge ==
  /\ scorers = [s \in Accumulators \cup {MergeSentences[i] : i \in 1..Len(MergeSentences)} |->
                  IF s \in Accumulators THEN Scorer(<<"d1", "d2">>, TRUE, FALSE)
                  ELSE Scorer(<<None>>, TRUE, FALSE)]
  /\ last = NoOp
  /\ res = NoRes
  /\ hist = [rec |-> 0, built |-> 0, into |-> [a \in Accumulators |-> <<>>]]

MergeRecord ==
  /\ hist.built < Len(MergeSentences)
  /\ hist.rec < MaxMergeRecords
  /\ LET s == MergeSentences[hist.built + 1]
     IN \E i \in MergeIn :
          /\ scorers' = [scorers EXCEPT ![s] = Apply(@, i)]
          /\ last' = [op |-> i.op, s |-> s, true_word |-> i.a.true_word,
                      predicted_words |-> i.a.predicted_words, domain |-> None,
                      partial_word |-> i.partial_word, typos |-> i.typos]
  /\ res' = NoRes
  /\ hist' = [hist EXCEPT !.rec = @ + 1]

MergeSetDomain ==
  /\ hist.built < Len(MergeSentences)
  /\ LET s == MergeSentences[hist.built + 1]
     IN \E domain \in DomainNames :
          /\ scorers' = [scorers EXCEPT ![s] = set_domain(@, domain)]
          /\ last' = [op |-> "set_domain", s |-> s, domain |-> domain]
  /\ res' = NoRes
  /\ hist' = [hist EXCEPT !.built = @ + 1]

(* scorer.add(scr) for a scorer the accumulator has not received yet *)
MergeAdd(a) ==
  /\ hist.built = Len(MergeSentences)
  /\ Len(hist.into[a]) < Len(MergeSentences)
  /\ \E n \in 1..Len(MergeSentences) :
       LET s == MergeSentences[n]
       IN /\ \A k \in 1..Len(hist.into[a]) : hist.into[a][k] # s
          /\ a = "alt" => n = Len(hist.into[a]) + 1
          /\ scorers' = [scorers EXCEPT ![a] = add(@, scorers[s])]
          /\ last' = [op |-> "add", s |-> a, other |-> s]
          /\ hist' = [hist EXCEPT !.into[a] = Append(@, s)]
  /\ res' = NoRes

MergeScore ==
  /\ last.op # "score_pair"
  /\ \A a \in Accumulators : Len(hist.into[a]) = Len(MergeSentences)
  /\ \E beta \in Betas :
       /\ res' = [raised |-> FALSE, none |-> FALSE,
                  first |-> score(scorers["acc"], beta), second |-> score(scorers["alt"], beta)]
       /\ last' = [op |-> "score_pair", beta |-> beta]
  /\ UNCHANGED <<scorers, hist>>

NextMerge ==
  \/ MergeRecord
  \/ MergeSetDomain
  \/ MergeAdd("acc")
  \/ Len(hist.into["acc"]) = Len(MergeSentences) /\ MergeAdd("alt")
  \/ MergeScore

SpecMerge == InitMerge /\ [][NextMerge]_vars

----------------------------------------------------------------------------
(* Text and tokenizer (kebbie/tokenizer.py).  A str is a sequence of       *)
(* one-character strings.                                                  *)

Letters == {"o", "k", "n"}

Punctuation == {","}

Wok == <<"o", "k">>

RECURSIVE Spaces(_)
Spaces(k) == IF k = 0 THEN <<>> ELSE <<" ">> \o Spaces(k - 1)

(* re.sub(r"\s*[,:;...]\s*", " ", sentence): k spaces are pending, skip    *)
(* is set while the spaces after a punctuation sign are being consumed     *)
RECURSIVE preprocess_scan(_, _, _, _)
preprocess_scan(s, out, k, skip) ==
  IF s = <<>> THEN out \o Spaces(k)
  ELSE IF Head(s) \in Punctuation THEN preprocess_scan(Tail(s), out \o <<" ">>, 0, TRUE)
  ELSE IF Head(s) = " "
    THEN IF skip THEN preprocess_scan(Tail(s), out, 0, TRUE)
         ELSE preprocess_scan(Tail(s), out, k + 1, FALSE)
  ELSE preprocess_scan(Tail(s), out \o Spaces(k) \o <<Head(s)>>, 0, FALSE)

preprocess(sentence) == preprocess_scan(sentence, <<>>, 0, FALSE)

(* sentence.strip().split() *)
RECURSIVE word_split_scan(_, _, _)
word_split_scan(s, word, words) ==
  IF s = <<>> THEN (IF word = <<>> THEN words ELSE Append(words, word))
  ELSE IF Head(s) = " "
    THEN word_split_scan(Tail(s), <<>>, IF word = <<>> THEN words ELSE Append(words, word))
  ELSE word_split_scan(Tail(s), Append(word, Head(s)), words)

word_split(sentence) == word_split_scan(sentence, <<>>, <<>>)

update_context(context, word) == context \o word \o <<" ">>

(* " ".join(words) *)
RECURSIVE JoinWords(_)
JoinWords(words) ==
  IF words = <<>> THEN <<>>
  ELSE IF Len(words) = 1 THEN words[1]
  ELSE words[1] \o <<" ">> \o JoinWords(Tail(words))

----------------------------------------------------------------------------
(* The random module.  The generator state is a residue; random() steps    *)
(* it and yields a number in [0, 1) in units of 1 / Unit.  The hash of a   *)
(* sentence is a residue computed from its characters.                     *)

RngMod == 10007

Unit == 10000

HashMod == 9973

CharCode(c) ==
  IF c = "o" THEN 111 ELSE IF c = "k" THEN 107 ELSE IF c = "n" THEN 110
  ELSE IF c = " " THEN 32 ELSE IF c = "." THEN 46 ELSE IF c = "K" THEN 75
  ELSE IF c = "7" THEN 55 ELSE 44

RECURSIVE HashFrom(_, _)
HashFrom(s, h) == IF s = <<>> THEN h ELSE HashFrom(Tail(s), (h * 31 + CharCode(Head(s))) % HashMod)

(* int(hashlib.sha256(sentence.encode("utf-8")).hexdigest(), 16) *)
Hash(sentence) == HashFrom(sentence, 7)

(* random.seed(x) *)
seed_state(x) == (x * 17 + 1) % RngMod

(* one call of random(): the next state; the number drawn is Drawn(state) *)
Step(g) == (g * 1103 + 4321) % RngMod

Drawn(g) == g % Unit

(* n calls of random() *)
RECURSIVE StepN(_, _)
StepN(g, n) == IF n = 0 THEN g ELSE Step(StepN(g, n - 1))

(* sample(proba), proba in units of 1 / Unit *)
sample(proba, g) ==
  IF proba = 0 THEN [g |-> g, v |-> FALSE]
  ELSE IF proba = Unit THEN [g |-> g, v |-> TRUE]
  ELSE [g |-> Step(g), v |-> Drawn(Step(g)) < proba]

(* the first option whose cumulated weight exceeds x, None past the last *)
RECURSIVE Bisect(_, _, _, _)
Bisect(options, weights, x, cum) ==
  IF options = <<>> THEN None
  ELSE IF x < cum + Head(weights) THEN Head(options)
  ELSE Bisect(Tail(options), Tail(weights), x, cum + Head(weights))

(* sample_among(probs): random.choices(options + [None], weights + [1 - sum]) *)
sample_among(options, weights, g) ==
  [g |-> Step(g), v |-> Bisect(options, weights, Drawn(Step(g)), 0)]

(* sample_partial_word: random.choices(r, weights=r) with r = range(1, n),  *)
(* the first s with random() * total < 1 + ... + s                          *)
sample_partial_word(keystrokes, word, true_word, g) ==
  LET n == (IF Len(true_word) < Len(word) THEN Len(true_word) ELSE Len(word)) - 1
      total == (n * (n + 1)) \div 2
      x == Drawn(Step(g)) * total
      S == CHOOSE k \in 1..n : x < ((k * (k + 1)) \div 2) * Unit
                                /\ \A j \in 1..(k - 1) : ~(x < ((j * (j + 1)) \div 2) * Unit)
  IN [g |-> Step(g), keystrokes |-> Prefix(keystrokes, S), word |-> Prefix(word, S)]

----------------------------------------------------------------------------
(* The keyboard layout (kebbie/layout.py).  A custom keyboard of two       *)
(* layers: the default layer 0 with three letters, the point and the       *)
(* space bar, and a layer 1 with an uppercase letter and a digit.  The     *)
(* keyboard has no accent and allows no symbol inside words.  "@" is on    *)
(* no layer.  Positions are integers; a key is 60 wide and 60 high.        *)

Key(char, left, right, top, bottom) ==
  [char |-> char, bounds |-> [left |-> left, right |-> right, top |-> top, bottom |-> bottom]]

keyboard_layout ==
  <<[id |-> 0, buttons |-> <<Key("o", 0, 60, 0, 60), Key("k", 60, 120, 0, 60),
                             Key("n", 120, 180, 0, 60), Key(".", 0, 60, 60, 120),
                             Key(" ", 60, 180, 60, 120)>>],
    [id |-> 1, buttons |-> <<Key("K", 60, 120, 0, 60), Key("7", 120, 180, 0, 60)>>]>>

LayerIds == {keyboard_layout[l].id : l \in 1..Len(keyboard_layout)}

(* klayers_info[klayer_id]: the keys of a layer, in layout order *)
klayers_info(klayer_id) ==
  (keyboard_layout[CHOOSE l \in 1..Len(keyboard_layout) : keyboard_layout[l].id = klayer_id]).buttons

OnLayer(char, klayer_id) ==
  \E i \in 1..Len(klayers_info(klayer_id)) : klayers_info(klayer_id)[i].char = char

(* char in keys_info *)
HasKey(char) == \E id \in LayerIds : OnLayer(char, id)

(* keys_info[char]: the key of the lowest layer that holds the character *)
keys_info(char) ==
  Strict(CHOOSE x \in LayerIds : OnLayer(char, x) /\ \A y \in LayerIds : OnLayer(char, y) => x <= y,
         LAMBDA id :
  Strict(klayers_info(id), LAMBDA klayer :
  Strict(klayer[CHOOSE j \in 1..Len(klayer) :
                  klayer[j].char = char /\ \A h \in 1..(j - 1) : klayer[h].char # char].bounds,
         LAMBDA b :
    [klayer_id |-> id, width |-> b.right - b.left, height |-> b.bottom - b.top,
     center |-> <<(b.left + b.right) \div 2, (b.top + b.bottom) \div 2>>])))

(* get_key_info(char), for a character that has a key (KeyError otherwise) *)
get_key_info(char) == keys_info(char)

(* four times the square of euclidian_dist(pos, centre of the bounds) *)
euclidian_dist(pos, b) ==
  (2 * pos[1] - (b.left + b.right)) * (2 * pos[1] - (b.left + b.right))
    + (2 * pos[2] - (b.top + b.bottom)) * (2 * pos[2] - (b.top + b.bottom))

Contained(pos, b) ==
  b.left <= pos[1] /\ pos[1] <= b.right /\ b.top <= pos[2] /\ pos[2] <= b.bottom

(* mutant: the key of the nearest centre, whatever the boxes *)
get_key_nearest(pos, klayer_id) ==
  Strict(klayers_info(klayer_id), LAMBDA klayer :
    klayer[CHOOSE i \in 1..Len(klayer) :
             /\ \A j \in 1..Len(klayer) :
                  euclidian_dist(pos, klayer[i].bounds) <= euclidian_dist(pos, klayer[j].bounds)
             /\ \A j \in 1..(i - 1) :
                  euclidian_dist(pos, klayer[i].bounds) < euclidian_dist(pos, klayer[j].bounds)].char)

(* next(k for k in klayer if ...), and min(klayer, key=...) on StopIteration *)
key_at(klayer, pos) ==
  IF \E i \in 1..Len(klayer) : Contained(pos, klayer[i].bounds)
  THEN klayer[CHOOSE i \in 1..Len(klayer) :
                /\ Contained(pos, klayer[i].bounds)
                /\ \A j \in 1..(i - 1) : ~Contained(pos, klayer[j].bounds)].char
  ELSE klayer[CHOOSE i \in 1..Len(klayer) :
                /\ \A j \in 1..Len(klayer) :
                     euclidian_dist(pos, klayer[i].bounds) <= euclidian_dist(pos, klayer[j].bounds)
                /\ \A j \in 1..(i - 1) :
                     euclidian_dist(pos, klayer[i].bounds) < euclidian_dist(pos, klayer[j].bounds)].char

get_key(pos, klayer_id) == Strict(klayers_info(klayer_id), LAMBDA klayer : key_at(klayer, pos))

(* LayoutHelper._extract_infos for a layout whose buttons carry accents:   *)
(* labels is the character of the button followed by its accents.  The    *)
(* result holds klayers_info, a function from layer ids to lists of keys,  *)
(* and, for each button with accents, the id that was current when its     *)
(* accents were stored.  ignore_layers_after is <<>> for None and <<n>>    *)
(* for the number n.                                                       *)
N_ACCENT_PER_LINE == 4

Button(labels, left, right, top, bottom) ==
  [labels |-> labels, boundingRect |-> [left |-> left, right |-> right, top |-> top, bottom |-> bottom]]

_make_virtual_key(idx, initial_bounds) ==
  LET width == initial_bounds.right - initial_bounds.left
      height == initial_bounds.bottom - initial_bounds.top
      start_x == initial_bounds.left + (idx % N_ACCENT_PER_LINE) * width
      start_y == initial_bounds.bottom - (idx \div N_ACCENT_PER_LINE) * height
  IN [left |-> start_x, right |-> start_x + width, top |-> start_y - height, bottom |-> start_y]

(* klayers_info[id].append(key), klayers_info being a defaultdict(list) *)
klayer_append(info, id, key) ==
  [x \in (DOMAIN info) \cup {id} |->
     IF x = id THEN Append(IF id \in DOMAIN info THEN info[id] ELSE <<>>, key) ELSE info[x]]

(* for i, char_accent in enumerate(accents), from the i-th accent on *)
RECURSIVE extract_accents(_, _, _, _, _)
extract_accents(info, last_klayer_id, accents, i, rect) ==
  IF i > Len(accents) THEN info
  ELSE Strict(klayer_append(info, last_klayer_id,
                            [char |-> accents[i], bounds |-> _make_virtual_key(i - 1, rect)]),
              LAMBDA n : extract_accents(n, last_klayer_id, accents, i + 1, rect))

(* one button of the layer klayer_id *)
extract_button(st, klayer_id, button) ==
  Strict(klayer_append(st.klayers_info, klayer_id,
                       [char |-> button.labels[1], bounds |-> button.boundingRect]), LAMBDA info :
    IF Len(button.labels) = 1 THEN [st EXCEPT !.klayers_info = info]
    ELSE [klayers_info |-> extract_accents(info, st.last_klayer_id, Tail(button.labels), 1,
                                           button.boundingRect),
          virtual |-> Append(st.virtual, [id |-> st.last_klayer_id, accents |-> Tail(button.labels)]),
          last_klayer_id |-> st.last_klayer_id + 1])

RECURSIVE extract_buttons(_, _, _)
extract_buttons(st, klayer_id, buttons) ==
  IF buttons = <<>> THEN st
  ELSE Strict(extract_button(st, klayer_id, Head(buttons)), LAMBDA n :
         extract_buttons(n, klayer_id, Tail(buttons)))

RECURSIVE extract_layers(_, _, _)
extract_layers(st, layers, ignore_layers_after) ==
  IF layers = <<>> THEN st
  ELSE IF ignore_layers_after # <<>> /\ Head(layers).id > ignore_layers_after[1]
  THEN extract_layers(st, Tail(layers), ignore_layers_after)
  ELSE Strict(extract_buttons(st, Head(layers).id, Head(layers).buttons), LAMBDA n :
         extract_layers(n, Tail(layers), ignore_layers_after))

_extract_infos(layout, ignore_layers_after) ==
  extract_layers([klayers_info |-> <<>>, virtual |-> <<>>, last_klayer_id |-> Len(layout)],
                 layout, ignore_layers_after)

----------------------------------------------------------------------------
(* The noise model (kebbie/noise_model.py), without common typos.          *)

SPACE == <<" ">>

DELETIONS == {"DELETE_SPELLING_SYMBOL", "DELETE_SPACE", "DELETE_PUNCTUATION", "DELETE_CHAR"}

ADDITIONS == {"ADD_SPELLING_SYMBOL", "ADD_SPACE", "ADD_PUNCTUATION", "ADD_CHAR"}

(* probabilities in units of 1 / Unit *)
DEFAULT_TYPO_PROBS ==
  [t \in Typo |->
     IF t = "TRANSPOSE_CHAR" THEN 100
     ELSE IF t = "DELETE_SPELLING_SYMBOL" THEN 1000
     ELSE IF t = "DELETE_SPACE" THEN 100
     ELSE IF t \in {"DELETE_CHAR", "ADD_CHAR"} THEN 50
     ELSE IF t \in {"SIMPLIFY_ACCENT", "SIMPLIFY_CASE"} THEN 800
     ELSE IF t = "COMMON_TYPO" THEN 500
     ELSE 0]

(* mutant: no multiplier for the first character *)
FrontDeletion_undamped(p) == p

(* p * FRONT_DELETION_MULTIPLIER, the multiplier being 0.36 *)
FrontDeletion(p) == (p * 36) \div 100

DEFAULT_SIGMA_RATIO == 3

(* float("inf") as a ratio *)
Infinity == 0

(* NoiseModel.__init__ *)
NoiseModel(typo_probs, x_offset, y_offset, x_ratio, y_ratio) ==
  [probs |-> typo_probs, x_offset |-> x_offset, y_offset |-> y_offset,
   x_ratio |-> x_ratio, y_ratio |-> y_ratio]

(* str.isupper / str.islower / str.isnumeric / str.lower on one character *)
IsUpperChar(c) == c = "K"

IsLowerChar(c) == c \in Letters

IsNumeric(c) == c = "7"

Lower(c) == IF c = "K" THEN "k" ELSE c

(* word.isupper(): some cased character, and none of them lowercase *)
IsUpper(word) ==
  /\ \E i \in 1..Len(word) : IsUpperChar(word[i])
  /\ \A i \in 1..Len(word) : ~IsLowerChar(word[i])

(* char in string.punctuation *)
IsPunctuation(c) == c \in {".", ",", "@"}

(* the layer of a character, None when get_key_info raises KeyError *)
LayerOf(char) == IF HasKey(char) THEN get_key_info(char).klayer_id ELSE -1

(* mutant: deletions kept for the last character *)
Events_with_last_deletion(word, char, i) ==
  LET is_last_char == i >= Len(word)
      transpose == IF ~is_last_char /\ LayerOf(char) = LayerOf(word[i + 1])
                   THEN <<"TRANSPOSE_CHAR">> ELSE <<>>
      own == IF char = " " THEN <<"DELETE_SPACE", "ADD_SPACE">>
             ELSE IF IsPunctuation(char) THEN <<"DELETE_PUNCTUATION", "ADD_PUNCTUATION">>
             ELSE IF LayerOf(char) = 0 THEN <<"DELETE_CHAR", "ADD_CHAR">>
             ELSE <<>>
  IN IF IsNumeric(char) \/ ~HasKey(char) THEN <<>> ELSE transpose \o own

(* the events a character is exposed to, in the order they are appended;   *)
(* word is the clean word, char the character after simplification         *)
Events(word, char, i) ==
  LET is_last_char == i >= Len(word)
      transpose == IF ~is_last_char /\ LayerOf(char) = LayerOf(word[i + 1])
                   THEN <<"TRANSPOSE_CHAR">> ELSE <<>>
      own == IF char = " " THEN <<"DELETE_SPACE", "ADD_SPACE">>
             ELSE IF IsPunctuation(char) THEN <<"DELETE_PUNCTUATION", "ADD_PUNCTUATION">>
             ELSE IF LayerOf(char) = 0 THEN <<"DELETE_CHAR", "ADD_CHAR">>
             ELSE <<>>
      events == IF IsNumeric(char) \/ ~HasKey(char) THEN <<>> ELSE transpose \o own
      NotDeletion(e) == e \notin DELETIONS
  IN IF is_last_char /\ word # SPACE THEN SelectSeq(events, NotDeletion) ELSE events

(* the character typed for a typo, and the characters left to process *)
noisy_char_of(typo, char, word_chars, i) ==
  IF typo = "TRANSPOSE_CHAR" THEN <<word_chars[i + 1]>>
  ELSE IF typo \in DELETIONS THEN <<>>
  ELSE IF typo \in ADDITIONS THEN <<char, char>>
  ELSE <<char>>

RECURSIVE _introduce_typos_loop(_, _, _, _, _, _, _)
_introduce_typos_loop(self, word, word_chars, i, noisy_word, typos, g) ==
  IF i > Len(word_chars) THEN [noisy_word |-> noisy_word, typos |-> typos, g |-> g]
  ELSE
    Strict(IF IsUpperChar(word_chars[i]) /\ Len(word) > 1 /\ ~IsUpper(word)
           THEN sample(self.probs["SIMPLIFY_CASE"], g) ELSE [g |-> g, v |-> FALSE], LAMBDA simplify :
    Strict(IF simplify.v THEN Lower(word_chars[i]) ELSE word_chars[i], LAMBDA char :
    Strict(Events(word, char, i), LAMBDA events :
    Strict(sample_among(events,
                        [k \in 1..Len(events) |->
                           IF i = 1 /\ events[k] \in DELETIONS
                           THEN FrontDeletion(self.probs[events[k]])
                           ELSE self.probs[events[k]]],
                        simplify.g), LAMBDA drawn :
    Strict([word_chars |-> IF drawn.v = "TRANSPOSE_CHAR" THEN [word_chars EXCEPT ![i + 1] = char]
                           ELSE word_chars,
            i |-> i + 1,
            noisy_word |-> noisy_word \o noisy_char_of(drawn.v, char, word_chars, i),
            typos |-> (IF simplify.v THEN Append(typos, "SIMPLIFY_CASE") ELSE typos)
                        \o (IF drawn.v # None THEN <<drawn.v>> ELSE <<>>)], LAMBDA n :
      _introduce_typos_loop(self, word, n.word_chars, n.i, n.noisy_word, n.typos, drawn.g))))))

_introduce_typos(self, word, error_free, g) ==
  IF error_free THEN [noisy_word |-> word, typos |-> <<>>, g |-> g]
  ELSE _introduce_typos_loop(self, word, word, 1, <<>>, <<>>, g)

(* random.gauss(mu, sigma): the deviation drawn, in units of sigma *)
Deviate(u) ==
  IF u < 13 THEN -4 ELSE IF u < 700 THEN -2 ELSE IF u < 3100 THEN -1 ELSE IF u < 6900 THEN 0
  ELSE IF u < 9300 THEN 1 ELSE IF u < 9987 THEN 2 ELSE 4

(* (width / 2) / ratio *)
Sigma(size, ratio) == IF ratio = Infinity THEN 0 ELSE (size \div 2) \div ratio

(* mutant: the mean, whatever the number drawn *)
gauss_mean(mu, sigma, g) == [g |-> Step(g), v |-> mu]

gauss(mu, sigma, g) == [g |-> Step(g), v |-> mu + Deviate(Drawn(Step(g))) * sigma]

(* the keystroke None *)
NoKeystroke == <<>>

(* mutant: every layer is sampled and gives a keystroke *)
fuzzy_char_of_any_layer(self, char, error_free, g) ==
  Strict(get_key_info(char), LAMBDA info :
  Strict(gauss(info.center[1] + self.x_offset, Sigma(info.width, self.x_ratio), g), LAMBDA x :
  Strict(gauss(info.center[2] + self.y_offset, Sigma(info.height, self.y_ratio), x.g), LAMBDA y :
  Strict(IF error_free THEN info.center ELSE <<x.v, y.v>>, LAMBDA keystroke :
    [keystroke |-> keystroke,
     fuzzy_char |-> get_key(keystroke, info.klayer_id),
     g |-> IF error_free THEN g ELSE y.g]))))

(* one character of _fuzzy_type: the keystroke, the character typed and    *)
(* the state of the generator afterwards                                   *)
fuzzy_char_of(self, char, error_free, g) ==
  Strict(get_key_info(char), LAMBDA info :
  Strict(gauss(info.center[1] + self.x_offset, Sigma(info.width, self.x_ratio), g), LAMBDA x :
  Strict(gauss(info.center[2] + self.y_offset, Sigma(info.height, self.y_ratio), x.g), LAMBDA y :
  Strict(IF error_free \/ info.klayer_id # 0 THEN info.center ELSE <<x.v, y.v>>, LAMBDA keystroke :
    [keystroke |-> IF info.klayer_id = 0 THEN keystroke ELSE NoKeystroke,
     fuzzy_char |-> get_key(keystroke, info.klayer_id),
     g |-> IF error_free \/ info.klayer_id # 0 THEN g ELSE y.g]))))

(* mutant: a character absent from the layout leaves no keystroke entry *)
paste_char_without_entry(keystrokes, fuzzy_word, char) ==
  [keystrokes |-> keystrokes, fuzzy_word |-> Append(fuzzy_word, char)]

(* except KeyError: keystrokes.append(None); fuzzy_word += char *)
paste_char(keystrokes, fuzzy_word, char) ==
  [keystrokes |-> Append(keystrokes, NoKeystroke), fuzzy_word |-> Append(fuzzy_word, char)]

RECURSIVE _fuzzy_type_loop(_, _, _, _, _, _, _)
_fuzzy_type_loop(self, word, error_free, keystrokes, fuzzy_word, typos, g) ==
  IF word = <<>> THEN [keystrokes |-> keystrokes, fuzzy_word |-> fuzzy_word, typos |-> typos, g |-> g]
  ELSE IF ~HasKey(Head(word))
  THEN Strict(paste_char(keystrokes, fuzzy_word, Head(word)),
              LAMBDA n :
         _fuzzy_type_loop(self, Tail(word), error_free, n.keystrokes, n.fuzzy_word, typos, g))
  ELSE Strict(fuzzy_char_of(self, Head(word), error_free, g), LAMBDA typed :
       Strict([keystrokes |-> Append(keystrokes, typed.keystroke),
               fuzzy_word |-> Append(fuzzy_word, typed.fuzzy_char),
               typos |-> IF typed.fuzzy_char # Head(word) THEN Append(typos, "SUBSTITUTE_CHAR") ELSE typos],
              LAMBDA n :
         _fuzzy_type_loop(self, Tail(word), error_free, n.keystrokes, n.fuzzy_word, n.typos, typed.g)))

_fuzzy_type(self, word, error_free, g) == _fuzzy_type_loop(self, word, error_free, <<>>, <<>>, <<>>, g)

(* not bool(re.match(r"^[^\pL]+$", word)) *)
_is_correctable(word) ==
  word = <<>> \/ \E i \in 1..Len(word) : IsLowerChar(word[i]) \/ IsUpperChar(word[i])

RECURSIVE type_till_space_loop(_, _, _, _, _, _, _)
type_till_space_loop(self, words, i, all_keystrokes, all_typed_char, all_typos, g) ==
  LET word == words[i]
      error_free == ~_is_correctable(word)
  IN
  Strict(_introduce_typos(self, word, error_free, g), LAMBDA noisy :
  Strict(_fuzzy_type(self, noisy.noisy_word, error_free, noisy.g), LAMBDA typed :
  Strict(_introduce_typos(self, SPACE, FALSE, typed.g), LAMBDA noisy_space :
  Strict(_fuzzy_type(self, noisy_space.noisy_word, FALSE, noisy_space.g), LAMBDA typed_space :
    LET keystrokes1 == all_keystrokes \o typed.keystrokes
        typed_char1 == all_typed_char \o typed.fuzzy_word
        typos1 == all_typos \o noisy.typos \o typed.typos
        keystrokes2 == keystrokes1 \o typed_space.keystrokes
        typed_char2 == typed_char1 \o typed_space.fuzzy_word
        typos2 == typos1 \o noisy_space.typos \o typed_space.typos
    IN IF noisy_space.typos = <<>> /\ typed_space.typos = <<>>
       THEN [keystrokes |-> keystrokes1, typed_word |-> typed_char1, n_word_typed |-> i,
             typos |-> typos1, g |-> typed_space.g]
       ELSE IF i = Len(words)
       THEN [keystrokes |-> keystrokes2, typed_word |-> typed_char2, n_word_typed |-> i,
             typos |-> typos2, g |-> typed_space.g]
       ELSE type_till_space_loop(self, words, i + 1, keystrokes2, typed_char2, typos2, typed_space.g)))))

(* mutant: the first word only, whatever its separator *)
type_till_space_first_word(self, words, g) ==
  type_till_space_loop(self, <<words[1]>>, 1, <<>>, <<>>, <<>>, g)

type_till_space(self, words, g) == type_till_space_loop(self, words, 1, <<>>, <<>>, <<>>, g)

(* kebbie/gesture.py: the path that links the keystrokes, with one point   *)
(* half-way between two successive keystrokes                              *)
RECURSIVE make_swipe_gesture(_)
make_swipe_gesture(keystrokes) ==
  IF Len(keystrokes) <= 1 THEN keystrokes
  ELSE <<keystrokes[1], <<(keystrokes[1][1] + keystrokes[2][1]) \div 2,
                          (keystrokes[1][2] + keystrokes[2][2]) \div 2>>>>
         \o make_swipe_gesture(Tail(keystrokes))

(* mutant: no gesture for a word without a letter *)
swipe_correctable_only(self, word, g) ==
  Strict(_fuzzy_type(self, word, ~_is_correctable(word), g), LAMBDA typed :
    [g |-> typed.g,
     keystrokes |-> typed.keystrokes,
     gesture |-> IF /\ _is_correctable(word)
                    /\ \A k \in 1..Len(typed.keystrokes) : typed.keystrokes[k] # NoKeystroke
                    /\ Len(typed.keystrokes) > 1
                 THEN make_swipe_gesture(typed.keystrokes) ELSE <<>>])

(* swipe(word): the gesture, or None (the empty list here); keystrokes is  *)
(* what make_swipe_gesture is given                                        *)
swipe(self, word, g) ==
  Strict(_fuzzy_type(self, word, ~_is_correctable(word), g), LAMBDA typed :
    [g |-> typed.g,
     keystrokes |-> typed.keystrokes,
     gesture |-> IF /\ \A k \in 1..Len(typed.keystrokes) : typed.keystrokes[k] # NoKeystroke
                    /\ Len(typed.keystrokes) > 1
                 THEN make_swipe_gesture(typed.keystrokes) ELSE <<>>])

----------------------------------------------------------------------------
(* A deterministic corrector: the same candidates whatever it is given     *)
(* (DummyCorrector of tests/test_oracle.py).                               *)

Predictions == <<Wok>>

auto_correct(context, keystrokes, word) == Predictions

auto_complete(context, keystrokes, partial_word) == Predictions

resolve_swipe(context, swipe_gesture) == Predictions

predict_next_word(context) == Predictions

(* the literal 10e9 *)
SEC_TO_NANOSEC == [mantissa |-> 10, exponent |-> 9]

(* profile_fn(fn, ...): result is what fn returned, memory the peak traced *)
(* and elapsed the difference time.time() - t0, a whole number of          *)
(* microseconds here; the runtime returned is elapsed * SEC_TO_NANOSEC     *)
profile_fn(result, memory, elapsed) ==
  [result |-> result, memory |-> memory,
   runtime |-> elapsed * SEC_TO_NANOSEC.mantissa * Pow10(SEC_TO_NANOSEC.exponent - 6)]

(* profile_fn: the memory and the runtime measured around one call *)
Profiles == {[memory |-> 65, runtime |-> 636], [memory |-> 70, runtime |-> 812]}

----------------------------------------------------------------------------
(* tester (kebbie/oracle.py): one sentence, one Scorer                     *)

CHUNK_SIZE == 10

MAX_CHAR_PER_SENTENCE == 256

(* 0.01, in units of 1 / Unit *)
SWIPE_PROB == 100

(* mutant: the empty word after the final word *)
next_word_or_empty(words) == IF Len(words) > 0 THEN words[1] ELSE <<>>

(* words[0] if len(words) > 0 else None *)
next_word(words) == IF Len(words) > 0 THEN words[1] ELSE None

(* mutant: the first word is typed again *)
words_left_but_first(words, n_word_typed) == SubSeq(words, n_word_typed, Len(words))

(* words = words[n_word_typed:] *)
words_left(words, n_word_typed) == SubSeq(words, n_word_typed + 1, Len(words))

(* one iteration of the while loop; rnd_state is the saved state and g the *)
(* state of the module-wide generator, which the iteration first sets to  *)
(* rnd_state.  Besides the variables of the loop the record holds what the *)
(* iteration has drawn: the swipe roll, the gesture, what was typed and    *)
(* the partial word.  The corrector is not part of the program: drawn is   *)
(* the number of values each of its calls takes from the module-wide       *)
(* generator.                                                              *)
tester_iteration(noisy, words, context, scorer, rnd_state, g, perf, drawn) ==
  Strict(sample(SWIPE_PROB, rnd_state), LAMBDA roll :
  Strict(IF roll.v THEN swipe(noisy, words[1], roll.g)
         ELSE [g |-> roll.g, keystrokes |-> <<>>, gesture |-> <<>>], LAMBDA swiped :
  Strict(type_till_space(noisy, words, swiped.g), LAMBDA typed :
  Strict([actual_word |-> JoinWords(Prefix(words, typed.n_word_typed)),
          words |-> words_left(words, typed.n_word_typed)], LAMBDA v :
  Strict(IF Len(typed.typed_word) > 1 /\ Len(v.actual_word) > 1
         THEN sample_partial_word(typed.keystrokes, typed.typed_word, v.actual_word,
                                  StepN(typed.g, IF swiped.gesture # <<>> THEN drawn ELSE 0))
         ELSE [g |-> StepN(typed.g, IF swiped.gesture # <<>> THEN drawn ELSE 0),
               keystrokes |-> <<>>, word |-> <<>>], LAMBDA partial :
  Strict(IF swiped.gesture # <<>>
         THEN swp(scorer, words[1], resolve_swipe(context, swiped.gesture), context,
                  perf.memory, perf.runtime, None)
         ELSE scorer, LAMBDA s1 :
  Strict(IF Len(typed.typed_word) > 1 /\ Len(v.actual_word) > 1
         THEN acp(s1, v.actual_word, auto_complete(context, partial.keystrokes, partial.word),
                  partial.word, context, perf.memory, perf.runtime, None)
         ELSE s1, LAMBDA s2 :
  Strict(acr(s2, v.actual_word, auto_correct(context, typed.keystrokes, typed.typed_word),
             typed.typed_word, context, typed.typos, perf.memory, perf.runtime, None), LAMBDA s3 :
  Strict(IF next_word(v.words) # None
         THEN nwp(s3, next_word(v.words), predict_next_word(update_context(context, v.actual_word)),
                  update_context(context, v.actual_word), perf.memory, perf.runtime, None)
         ELSE s3, LAMBDA s4 :
    [words |-> v.words, context |-> update_context(context, v.actual_word), scorer |-> s4,
     rnd_state |-> typed.g, g |-> StepN(partial.g, drawn),
     roll |-> roll, swipe_gesture |-> swiped.gesture, typed |-> typed,
     partial_word |-> partial.word])))))))))

(* the while loop *)
RECURSIVE tester_loop(_, _, _, _, _, _, _)
tester_loop(noisy, words, context, scorer, rnd_state, g, perf) ==
  IF words = <<>> \/ Len(context) >= MAX_CHAR_PER_SENTENCE THEN scorer
  ELSE Strict(tester_iteration(noisy, words, context, scorer, rnd_state, g, perf, 0), LAMBDA it :
         tester_loop(noisy, it.words, it.context, it.scorer, it.rnd_state, it.g, perf))

(* init_tester: fn.noisy = NoiseModel(lang, custom_keyboard) *)
tester_noisy == NoiseModel(DEFAULT_TYPO_PROBS, 0, 0, DEFAULT_SIGMA_RATIO, DEFAULT_SIGMA_RATIO)

tester(sentence, base_seed, track_mistakes, perf) ==
  LET hsh == Hash(sentence)
      rnd_state == seed_state(base_seed + hsh)
      words == word_split(preprocess(sentence))
  IN tester_loop(tester_noisy, words, <<>>, Scorer(<<None>>, TRUE, track_mistakes), rnd_state, rnd_state, perf)

----------------------------------------------------------------------------
(* Oracle.test (kebbie/oracle.py): a pool of n_proc workers runs tester    *)
(* over the sentences of each domain, chunk by chunk; the Scorers come     *)
(* back in the order the chunks complete and are merged into one Scorer.   *)
(*   scorers : "acc" -> the Scorer of the running test                     *)
(*   hist    : the Oracle and its pool: seed and track_mistakes, the run   *)
(*             number, the domain being tested, the chunks not yet taken   *)
(*             (tasks), the chunk each worker holds (busy), the Scorers    *)
(*             completed and not yet handed back (out), and what the       *)
(*             first run returned                                          *)

MaxProc == 2

MaxRuns == 2

Seeds == {2, 52}

n_most_common_mistakes == 2

S1 == <<"o", "k", " ", "k", "o">>

S2 == <<"k", "o", " ", "k", "o">>

S3 == <<"o", "k", ",", " ", "o", "n">>

test_data ==
  <<[domain |-> "d1", sentence_list |-> <<S1, S2>>],
    [domain |-> "d2", sentence_list |-> <<S3>>]>>

data_keys == [d \in 1..Len(test_data) |-> test_data[d].domain]

(* the chunks of imap_unordered(tester, sentence_list, chunksize) *)
RECURSIVE Chunks(_, _)
Chunks(sentence_list, chunksize) ==
  IF Len(sentence_list) <= chunksize THEN <<sentence_list>>
  ELSE <<SubSeq(sentence_list, 1, chunksize)>>
         \o Chunks(SubSeq(sentence_list, chunksize + 1, Len(sentence_list)), chunksize)

chunk_size(sentence_list, n_proc) ==
  LET share == Len(sentence_list) \div n_proc
      capped == IF CHUNK_SIZE < share THEN CHUNK_SIZE ELSE share
  IN IF capped > 1 THEN capped ELSE 1

DomainTasks(d, n_proc) ==
  Chunks(test_data[d].sentence_list, chunk_size(test_data[d].sentence_list, n_proc))

(* Counter.most_common(n): by decreasing count, first inserted first *)
RECURSIVE most_common(_, _)
most_common(c, n) ==
  IF n = 0 \/ c = <<>> THEN <<>>
  ELSE LET i == CHOOSE i \in 1..Len(c) :
                  /\ \A j \in 1..Len(c) : c[j].n <= c[i].n
                  /\ \A j \in 1..(i - 1) : c[j].n < c[i].n
       IN <<c[i]>> \o most_common(SubSeq(c, 1, i - 1) \o SubSeq(c, i + 1, Len(c)), n - 1)

(* ", ".join(preds) between brackets *)
RECURSIVE JoinPreds(_)
JoinPreds(preds) ==
  IF preds = <<>> THEN <<>>
  ELSE IF Len(preds) = 1 THEN preds[1]
  ELSE preds[1] \o <<",", " ">> \o JoinPreds(Tail(preds))

MistakeRows(m_count) ==
  LET top == most_common(m_count, n_most_common_mistakes)
  IN <<<<"Count", "Expected", "Predictions", "Context">>>>
       \o [k \in 1..Len(top) |->
             <<top[k].n, top[k].key.actual, <<"[">> \o JoinPreds(top[k].key.preds) \o <<"]">>,
               top[k].key.context>>]

(* what test() returns: score() and, when mistakes are tracked, the most   *)
(* common ones                                                             *)
test_results(scorer, beta, track_mistakes) ==
  LET mistakes == [next_word_prediction |-> MistakeRows(scorer.nwp_mistakes),
                   auto_completion |-> MistakeRows(scorer.acp_mistakes),
                   auto_correction |-> MistakeRows(scorer.acr_mistakes)]
      Returned(results) ==
        IF results.raised \/ ~track_mistakes THEN results
        ELSE results @@ ("most_common_mistakes" :> mistakes)
  IN Returned(score(scorer, beta))

(* the returned dictionary without the measured performances *)
WithoutPerformances(r) ==
  IF r.raised THEN r
  ELSE [x \in DOMAIN r |->
          IF x \in {"raised", "overall_score", "most_common_mistakes"} THEN r[x]
          ELSE [y \in (DOMAIN r[x]) \ {"performances"} |-> r[x][y]]]

Idle == <<>>

InitOracle ==
  /\ scorers = [x \in {"acc"} |-> Scorer(data_keys, TRUE, FALSE)]
  /\ last = NoOp
  /\ res = NoRes
  /\ \E seed \in Seeds : \E track_mistakes \in BOOLEAN :
       hist = [seed |-> seed, track_mistakes |-> track_mistakes, run |-> 0, phase |-> "idle",
               n_proc |-> 0, domain |-> 0, tasks |-> <<>>, busy |-> <<>>, out |-> <<>>,
               first |-> NoRes]

(* test() up to the first imap_unordered call *)
TestBegin ==
  /\ hist.phase = "idle"
  /\ hist.run < MaxRuns
  /\ \E n_proc \in 1..MaxProc :
       /\ hist' = [hist EXCEPT !.run = @ + 1, !.phase = "testing", !.n_proc = n_proc,
                               !.domain = 1, !.tasks = DomainTasks(1, n_proc),
                               !.busy = [w \in 1..n_proc |-> Idle], !.out = <<>>]
       /\ last' = [op |-> "test_begin", n_proc |-> n_proc]
  /\ scorers' = [x \in {"acc"} |-> Scorer(data_keys, TRUE, hist.track_mistakes)]
  /\ res' = NoRes

(* an idle worker takes the next chunk *)
Take(w) ==
  /\ hist.phase = "testing"
  /\ hist.busy[w] = Idle
  /\ hist.tasks # <<>>
  /\ hist' = [hist EXCEPT !.busy[w] = Head(hist.tasks), !.tasks = Tail(@)]
  /\ last' = [op |-> "take", w |-> w]
  /\ UNCHANGED <<scorers, res>>

(* a worker runs tester over its chunk and puts the Scorers in the queue *)
Complete(w) ==
  /\ hist.phase = "testing"
  /\ hist.busy[w] # Idle
  /\ \E perf \in Profiles :
       LET chunk == hist.busy[w]
           done == [k \in 1..Len(chunk) |-> tester(chunk[k], hist.seed, hist.track_mistakes, perf)]
       IN hist' = [hist EXCEPT !.busy[w] = Idle, !.out = @ \o done]
  /\ last' = [op |-> "complete", w |-> w]
  /\ UNCHANGED <<scorers, res>>

(* the body of the loop over imap_unordered, and the move to the next      *)
(* domain once the sentences of this one all came back                     *)
HandBack ==
  /\ hist.phase = "testing"
  /\ hist.out # <<>>
  /\ LET domain == test_data[hist.domain].domain
         scr == set_domain(Head(hist.out), domain)
         exhausted == hist.tasks = <<>> /\ Len(hist.out) = 1
                        /\ \A w \in 1..hist.n_proc : hist.busy[w] = Idle
     IN /\ scorers' = [scorers EXCEPT !["acc"] = add(@, scr)]
        /\ hist' = IF ~exhausted THEN [hist EXCEPT !.out = Tail(@)]
                   ELSE IF hist.domain < Len(test_data)
                   THEN [hist EXCEPT !.out = <<>>, !.domain = @ + 1,
                                     !.tasks = DomainTasks(hist.domain + 1, hist.n_proc)]
                   ELSE [hist EXCEPT !.out = <<>>, !.phase = "scoring"]
        /\ last' = [op |-> "hand_back", domain |-> domain]
  /\ res' = res

(* test() after the pool: the results are returned *)
TestEnd ==
  /\ hist.phase = "scoring"
  /\ \E beta \in Betas :
       /\ res' = test_results(scorers["acc"], beta, hist.track_mistakes)
       /\ last' = [op |-> "test", beta |-> beta]
  /\ hist' = [hist EXCEPT !.phase = "idle",
                          !.first = IF hist.run = 1 THEN WithoutPerformances(res') ELSE @]
  /\ scorers' = scorers

NextOracle ==
  \/ TestBegin
  \/ \E w \in 1..hist.n_proc : Take(w)
  \/ \E w \in 1..hist.n_proc : Complete(w)
  \/ HandBack
  \/ TestEnd

SpecOracle == InitOracle /\ [][NextOracle]_vars

----------------------------------------------------------------------------
(* The noise model on its own: a NoiseModel is built, the generator is     *)
(* seeded, and one of its methods is called on a word or a list of words.  *)
(*   hist : the NoiseModel (self) and the state of the generator           *)
(*   last : the call and its arguments                                     *)
(*   res  : what the call returned, with the state of the generator after  *)

MaxNoiseSeeds == 12

Only(typo) == [t \in Typo |-> IF t = typo THEN Unit ELSE 0]

NoTypo == [t \in Typo |-> 0]

HEAVY_TYPO_PROBS ==
  [t \in Typo |->
     IF t \in {"TRANSPOSE_CHAR", "DELETE_CHAR", "ADD_CHAR", "ADD_SPACE", "DELETE_PUNCTUATION"} THEN 2000
     ELSE IF t = "DELETE_SPACE" THEN 3000
     ELSE IF t = "SIMPLIFY_CASE" THEN 5000
     ELSE IF t = "ADD_PUNCTUATION" THEN 1000
     ELSE 0]

NoiseModels ==
  {NoiseModel(DEFAULT_TYPO_PROBS, 0, 0, DEFAULT_SIGMA_RATIO, DEFAULT_SIGMA_RATIO),
   NoiseModel(NoTypo, 0, 0, Infinity, Infinity),
   NoiseModel(NoTypo, 40, 0, Infinity, Infinity),
   NoiseModel(Only("DELETE_CHAR"), 0, 0, Infinity, Infinity),
   NoiseModel(Only("TRANSPOSE_CHAR"), 0, 0, Infinity, Infinity),
   NoiseModel(HEAVY_TYPO_PROBS, 0, 0, DEFAULT_SIGMA_RATIO, DEFAULT_SIGMA_RATIO),
   NoiseModel(HEAVY_TYPO_PROBS, 0, 0, 1, 1)}

NoiseWords ==
  {<<"o", "k">>, <<"o", "k", "n">>, <<"k">>, <<"o", "K">>, <<"K", "k">>, <<".", ".">>,
   <<"o", "k", "K">>, <<"7", "7">>, <<"o", "@", "n">>, <<"k", ".">>, SPACE}

NoiseSentences ==
  {<<<<"o", "k">>>>,
   <<<<"o", "k">>, <<"o", "n">>>>,
   <<<<"o", "k">>, <<"o", "n">>, <<"k">>>>,
   <<<<".", ".">>, <<"o", "k">>>>,
   <<<<"o", "K">>, <<"7", "7">>, <<"n", "o">>>>}

Positions == {<<x, y>> : x \in {-10, 30, 60, 70, 120, 150, 200}, y \in {-20, 30, 60, 90, 150}}

InitNoise ==
  /\ scorers = EmptyDict
  /\ last = NoOp
  /\ res = NoRes
  /\ \E self \in NoiseModels : \E seed \in 1..MaxNoiseSeeds :
       hist = [noisy |-> self, g |-> seed_state(seed)]

IntroduceTypos ==
  \E word \in NoiseWords : \E error_free \in BOOLEAN :
    /\ last = NoOp
    /\ res' = _introduce_typos(hist.noisy, word, error_free, hist.g)
    /\ last' = [op |-> "_introduce_typos", word |-> word, error_free |-> error_free]
    /\ UNCHANGED <<scorers, hist>>

FuzzyType ==
  \E word \in NoiseWords : \E error_free \in BOOLEAN :
    /\ last = NoOp
    /\ res' = _fuzzy_type(hist.noisy, word, error_free, hist.g)
    /\ last' = [op |-> "_fuzzy_type", word |-> word, error_free |-> error_free]
    /\ UNCHANGED <<scorers, hist>>

TypeTillSpace ==
  \E words \in NoiseSentences :
    /\ last = NoOp
    /\ res' = type_till_space(hist.noisy, words, hist.g)
    /\ last' = [op |-> "type_till_space", words |-> words]
    /\ UNCHANGED <<scorers, hist>>

Swipe ==
  \E word \in NoiseWords :
    /\ last = NoOp
    /\ res' = swipe(hist.noisy, word, hist.g)
    /\ last' = [op |-> "swipe", word |-> word]
    /\ UNCHANGED <<scorers, hist>>

GetKey ==
  \E position \in Positions : \E klayer_id \in LayerIds :
    /\ last = NoOp
    /\ res' = [key |-> get_key(position, klayer_id)]
    /\ last' = [op |-> "get_key", position |-> position, klayer_id |-> klayer_id]
    /\ UNCHANGED <<scorers, hist>>

NextNoise == IntroduceTypos \/ FuzzyType \/ TypeTillSpace \/ Swipe \/ GetKey

SpecNoise == InitNoise /\ [][NextNoise]_vars

----------------------------------------------------------------------------
(* tester, one iteration of its loop at a time.                            *)
(*   scorers : "scr" -> the Scorer of the sentence                         *)
(*   hist    : the variables of the loop (words, context, rnd_state and    *)
(*             the state g of the generator), the number of words of the   *)
(*             sentence and of the words typed together with the word      *)
(*             before them                                                 *)
(*   last    : the step, and the words left when the iteration began       *)
(*   res     : what the iteration drew: the swipe roll, the gesture, what  *)
(*             type_till_space returned and the partial word; the Scorer   *)
(*             on return                                                   *)

MaxTesterSeeds == 60

S4 == <<"o", "n", " ", "n", "o", " ", "o", "k", " ", "k">>

S5 == <<"o", "k", "n", "o", " ", "n", "o", "k", "o", " ", "k", "o", "n", "o">>

TesterSentences == {S1, S2, S3, S4, S5}

(* two correctors: what a call takes in memory and time, and the number of *)
(* values it draws from the module-wide generator                          *)
TesterCorrectors ==
  {[memory |-> 65, runtime |-> 636, drawn |-> 0], [memory |-> 70, runtime |-> 812, drawn |-> 1]}

InitTester ==
  /\ last = NoOp
  /\ res = NoRes
  /\ \E sentence \in TesterSentences : \E base_seed \in 1..MaxTesterSeeds :
     \E track_mistakes \in BOOLEAN :
       /\ scorers = [x \in {"scr"} |-> Scorer(<<None>>, TRUE, track_mistakes)]
       /\ hist = [sentence |-> sentence, base_seed |-> base_seed,
                  noisy |-> tester_noisy,
                  words |-> word_split(preprocess(sentence)),
                  n_words |-> Len(word_split(preprocess(sentence))),
                  context |-> <<>>,
                  rnd_state |-> seed_state(base_seed + Hash(sentence)),
                  g |-> seed_state(base_seed + Hash(sentence)),
                  joined |-> 0]

Iterate ==
  /\ last.op # "return"
  /\ hist.words # <<>> /\ Len(hist.context) < MAX_CHAR_PER_SENTENCE
  /\ \E c \in TesterCorrectors :
       \E it \in {tester_iteration(hist.noisy, hist.words, hist.context, scorers.scr,
                                   hist.rnd_state, hist.g, c, c.drawn)} :
         /\ scorers' = [scorers EXCEPT !.scr = it.scorer]
         /\ hist' = [hist EXCEPT !.words = it.words, !.context = it.context,
                                 !.rnd_state = it.rnd_state, !.g = it.g,
                                 !.joined = @ + it.typed.n_word_typed - 1]
         /\ res' = [roll |-> it.roll, swipe_gesture |-> it.swipe_gesture, typed |-> it.typed,
                     partial_word |-> it.partial_word]
         /\ last' = [op |-> "iteration", words |-> hist.words]

Return ==
  /\ last.op # "return"
  /\ ~(hist.words # <<>> /\ Len(hist.context) < MAX_CHAR_PER_SENTENCE)
  /\ res' = scorers.scr
  /\ last' = [op |-> "return"]
  /\ UNCHANGED <<scorers, hist>>

NextTester == Iterate \/ Return

SpecTester == InitTester /\ [][NextTester]_vars

(* tester is sequential code: once called, it runs its next step as long   *)
(* as it has one, the calls of the corrector being supposed to return      *)
SpecTesterFair == SpecTester /\ WF_vars(NextTester)

----------------------------------------------------------------------------
(* The mistake counters: a per-sentence Scorer records next-word and swipe *)
(* predictions with track_mistakes set and no memory or runtime measured,  *)
(* and is merged into the Scorer of the test.                              *)
(*   scorers : "acc" -> the Scorer of the test, "scr" -> the per-sentence  *)
(*             Scorer                                                      *)
(*   hist    : for each Scorer, task and expected word, the number of      *)
(*             misses counted and the predictions and context of the first *)
(*             and of the last of them                                     *)

MaxMisses == 3

MaxMerges == 2

MistakeTasks == {"nwp", "swp"}

MissedWords == {W1, W2}

(* what the corrector answered and the context it was given *)
Told(predicted_words, context) == [preds |-> Prefix(predicted_words, 3), context |-> context]

MissIn ==
  {[true_word |-> W1, predicted_words |-> <<W2, W2, W2, W1>>, context |-> Context],
   [true_word |-> W1, predicted_words |-> <<>>, context |-> <<>>],
   [true_word |-> W2, predicted_words |-> <<W1>>, context |-> Context],
   [true_word |-> W2, predicted_words |-> <<>>, context |-> <<>>],
   [true_word |-> W1, predicted_words |-> <<W2, W1>>, context |-> Context]}

Unseen == [n |-> 0, first |-> Told(<<>>, <<>>), last |-> Told(<<>>, <<>>)]

Seen(seen, told) ==
  [n |-> seen.n + 1, first |-> IF seen.n = 0 THEN told ELSE seen.first, last |-> told]

SeenMerged(seen, other) ==
  IF other.n = 0 THEN seen
  ELSE [n |-> seen.n + other.n, first |-> IF seen.n = 0 THEN other.first ELSE seen.first,
        last |-> other.last]

InitMistakes ==
  /\ scorers = [s \in ScorerIds |-> Scorer(<<None>>, TRUE, TRUE)]
  /\ last = NoOp
  /\ res = NoRes
  /\ hist = [rec |-> 0, add |-> 0, merged |-> FALSE,
             seen |-> [s \in ScorerIds |-> [t \in MistakeTasks |-> [w \in MissedWords |-> Unseen]]]]

MistakeRecord(task) ==
  /\ hist.rec < MaxMisses
  /\ ~hist.merged
  /\ \E i \in MissIn :
       /\ scorers' = [scorers EXCEPT !["scr"] =
                        IF task = "nwp"
                        THEN nwp(@, i.true_word, i.predicted_words, i.context, -1, -1, None)
                        ELSE swp(@, i.true_word, i.predicted_words, i.context, -1, -1, None)]
       /\ last' = [op |-> task, s |-> "scr", true_word |-> i.true_word,
                   predicted_words |-> i.predicted_words, context |-> i.context]
       /\ hist' = [hist EXCEPT !.rec = @ + 1,
                               !.seen["scr"][task][i.true_word] =
                                  IF IsCorrect3(i.true_word, i.predicted_words) THEN @
                                  ELSE Seen(@, Told(i.predicted_words, i.context))]
  /\ res' = NoRes

MistakeAdd ==
  /\ ~hist.merged
  /\ hist.add < MaxMerges
  /\ scorers' = [scorers EXCEPT !["acc"] = add(@, scorers["scr"])]
  /\ last' = [op |-> "add", s |-> "acc", other |-> "scr"]
  /\ res' = NoRes
  /\ hist' = [hist EXCEPT !.add = @ + 1, !.merged = TRUE,
                          !.seen["acc"] = [t \in MistakeTasks |-> [w \in MissedWords |->
                                             SeenMerged(@[t][w], hist.seen["scr"][t][w])]]]

(* the next sentence gets a Scorer of its own *)
MistakeNew ==
  /\ hist.merged
  /\ hist.rec < MaxMisses
  /\ scorers' = [scorers EXCEPT !["scr"] = Scorer(<<None>>, TRUE, TRUE)]
  /\ last' = [op |-> "new", s |-> "scr"]
  /\ res' = NoRes
  /\ hist' = [hist EXCEPT !.merged = FALSE,
                          !.seen["scr"] = [t \in MistakeTasks |-> [w \in MissedWords |-> Unseen]]]

NextMistakes == MistakeRecord("nwp") \/ MistakeRecord("swp") \/ MistakeAdd \/ MistakeNew

SpecMistakes == InitMistakes /\ [][NextMistakes]_vars

----------------------------------------------------------------------------
(* SpecAcp: auto-completion outcomes over partial words of every           *)
(* completion rate, shorter and longer than the word, with and without a   *)
(* typo, filed under two domains and scored.                               *)

MaxAcpRecords == 4

W5 == <<"o", "k", "a", "y", "s">>

AcpIn ==
  {InAcp(Answer(W5, <<W5>>, -1, -1), <<"o">>, None),
   InAcp(AnsTop3, <<"o">>, None),
   InAcp(AnsEmpty, <<"o">>, "d1"),
   InAcp(AnsFourth, <<"o", "j", "a">>, None),
   InAcp(AnsEmpty, <<"k", "o", "o">>, "d1")}

NextAcp ==
  \/ Acp("scr", AcpIn, MaxAcpRecords)
  \/ Score("scr")

SpecAcp == Init /\ [][NextAcp]_vars

----------------------------------------------------------------------------
(* SpecProfile: one call of a profiled_* method of the base Corrector,     *)
(* which takes hist.elapsed microseconds and hist.memory bytes.            *)

MaxElapsed == 40

ProfiledMethods ==
  {"profiled_auto_correct", "profiled_auto_complete", "profiled_resolve_swipe",
   "profiled_predict_next_word"}

InitProfile ==
  /\ scorers = [x \in {"scr"} |-> Scorer(<<None>>, TRUE, FALSE)]
  /\ last = NoOp
  /\ res = NoRes
  /\ \E elapsed \in 0..MaxElapsed : \E memory \in {0, 65} :
       hist = [elapsed |-> elapsed, memory |-> memory]

ProfiledCall ==
  /\ last = NoOp
  /\ \E method \in ProfiledMethods :
       /\ last' = [op |-> method]
       /\ res' = profile_fn(IF method = "profiled_auto_correct" THEN auto_correct(<<>>, <<>>, Wok)
                            ELSE IF method = "profiled_auto_complete" THEN auto_complete(<<>>, <<>>, <<"o">>)
                            ELSE IF method = "profiled_resolve_swipe" THEN resolve_swipe(<<>>, <<>>)
                            ELSE predict_next_word(<<>>),
                            hist.memory, hist.elapsed)
  /\ UNCHANGED <<scorers, hist>>

NextProfile == ProfiledCall

SpecProfile == InitProfile /\ [][NextProfile]_vars

----------------------------------------------------------------------------
(* SpecPool: the correctors of Oracle.test (kebbie/oracle.py).  test puts  *)
(* correctors on a queue and creates a pool; each worker of the pool runs  *)
(* init_tester once, which takes its corrector from the queue, and then    *)
(* runs tester on the sentences it is given.                               *)
(*   hist : the arguments corrector and n_proc of test, the queue, the     *)
(*          number of workers of the pool, for each worker the entry it    *)
(*          holds, and the number of tester calls so far                   *)

MaxPoolProc == 3

MaxPoolTasks == 2

(* the corrector argument of test: one Corrector, or a list of them *)
One(c) == [is_list |-> FALSE, c |-> c]

Several(cs) == [is_list |-> TRUE, c |-> cs]

CorrectorArgs ==
  {One("c1"), Several(<<"c1">>), Several(<<"c1", "c2">>), Several(<<"c2", "c1", "c3">>),
   Several(<<"c1", "c1">>)}

(* a worker that has not run init_tester yet, and one whose init_tester    *)
(* waits on the empty queue                                                *)
NotInitialized == [k |-> 0, corrector |-> "none"]

Blocked == [k |-> 0, corrector |-> "blocked"]

(* the entries put on proc_correctors, numbered in the order of the puts *)
proc_correctors(corrector, n_proc) ==
  IF ~corrector.is_list THEN [k \in 1..n_proc |-> [k |-> k, corrector |-> corrector.c]]
  ELSE [k \in 1..Len(corrector.c) |-> [k |-> k, corrector |-> corrector.c[k]]]

(* mutant: n_proc is not replaced by the length of the list *)
pool_processes_as_asked(corrector, n_proc) == n_proc

(* the processes argument of mp.Pool *)
pool_processes(corrector, n_proc) == IF ~corrector.is_list THEN n_proc ELSE Len(corrector.c)

InitPool ==
  /\ scorers = [x \in {"acc"} |-> Scorer(<<>>, TRUE, FALSE)]
  /\ last = NoOp
  /\ res = NoRes
  /\ \E corrector \in CorrectorArgs : \E n_proc \in 1..MaxPoolProc :
       hist = [corrector |-> corrector, n_proc |-> n_proc, queue |-> <<>>, processes |-> 0,
               fn |-> <<>>, tasks |-> 0]

(* Oracle.test up to the creation of the pool *)
PoolCreate ==
  /\ last = NoOp
  /\ hist' = [hist EXCEPT
                !.queue = proc_correctors(hist.corrector, hist.n_proc),
                !.processes = pool_processes(hist.corrector, hist.n_proc),
                !.fn = [w \in 1..pool_processes(hist.corrector, hist.n_proc) |-> NotInitialized]]
  /\ last' = [op |-> "test"]
  /\ UNCHANGED <<scorers, res>>

(* init_tester in worker w: fn.corrector = correctors.get() *)
InitTesterIn(w) ==
  /\ hist.fn[w] = NotInitialized
  /\ hist' = IF hist.queue = <<>> THEN [hist EXCEPT !.fn[w] = Blocked]
             ELSE [hist EXCEPT !.fn[w] = Head(hist.queue), !.queue = Tail(hist.queue)]
  /\ last' = [op |-> "init_tester", w |-> w]
  /\ UNCHANGED <<scorers, res>>

(* worker w runs tester on a sentence with the corrector it holds *)
TesterIn(w) ==
  /\ hist.fn[w] \notin {NotInitialized, Blocked}
  /\ hist.tasks < MaxPoolTasks
  /\ hist' = [hist EXCEPT !.tasks = @ + 1]
  /\ last' = [op |-> "tester", w |-> w, corrector |-> hist.fn[w]]
  /\ UNCHANGED <<scorers, res>>

NextPool ==
  \/ PoolCreate
  \/ \E w \in DOMAIN hist.fn : InitTesterIn(w)
  \/ \E w \in DOMAIN hist.fn : TesterIn(w)

SpecPool == InitPool /\ [][NextPool]_vars

----------------------------------------------------------------------------
(* SpecLayout: a LayoutHelper built from a custom keyboard whose buttons   *)
(* carry accents, then asked for the key at a position of a layer.  The    *)
(* letters "x", "y", "z", "u", "v" stand for accented letters.             *)
(*   hist : the layout, ignore_layers_after and, once built, the helper    *)

Row(id, buttons) == [id |-> id, buttons |-> buttons]

Layouts ==
  {<<Row(0, <<Button(<<"o", "x", "y">>, 0, 60, 0, 60), Button(<<"k">>, 60, 120, 0, 60),
              Button(<<"n", "z">>, 120, 180, 0, 60)>>),
     Row(1, <<Button(<<"K">>, 60, 120, 0, 60), Button(<<"O", "u", "x">>, 0, 60, 0, 60)>>)>>,
   <<Row(1, <<Button(<<"o", "x", "y">>, 0, 60, 0, 60), Button(<<"k">>, 60, 120, 0, 60)>>),
     Row(2, <<Button(<<"K">>, 60, 120, 0, 60), Button(<<"O", "u">>, 0, 60, 0, 60)>>)>>,
   <<Row(0, <<Button(<<"o", "x", "y", "z", "u", "v">>, 0, 60, 0, 60),
              Button(<<"n", "z">>, 120, 180, 0, 60)>>),
     Row(3, <<Button(<<"K">>, 60, 120, 0, 60), Button(<<"7">>, 120, 180, 0, 60)>>)>>,
   <<Row(0, <<Button(<<"o">>, 0, 60, 0, 60), Button(<<"k">>, 60, 120, 0, 60)>>),
     Row(1, <<Button(<<"K">>, 60, 120, 0, 60)>>)>>}

InitLayout ==
  /\ scorers = [x \in {"scr"} |-> Scorer(<<None>>, TRUE, FALSE)]
  /\ last = NoOp
  /\ res = NoRes
  /\ \E layout \in Layouts : \E ignore_layers_after \in {<<>>, <<0>>, <<3>>} :
       hist = [layout |-> layout, ignore_layers_after |-> ignore_layers_after,
               klayers_info |-> <<>>, virtual |-> <<>>]

(* LayoutHelper(custom_keyboard=..., ignore_layers_after=...) *)
LayoutHelper ==
  /\ last = NoOp
  /\ \E e \in {_extract_infos(hist.layout, hist.ignore_layers_after)} :
       hist' = [hist EXCEPT !.klayers_info = e.klayers_info, !.virtual = e.virtual]
  /\ last' = [op |-> "LayoutHelper"]
  /\ UNCHANGED <<scorers, res>>

(* get_key(pos, klayer_id) on the helper *)
GetKeyAt ==
  /\ last.op = "LayoutHelper"
  /\ \E pos \in Positions : \E klayer_id \in DOMAIN hist.klayers_info :
       /\ res' = [key |-> key_at(hist.klayers_info[klayer_id], pos)]
       /\ last' = [op |-> "get_key", position |-> pos, klayer_id |-> klayer_id]
  /\ UNCHANGED <<scorers, hist>>

NextLayout == LayoutHelper \/ GetKeyAt

SpecLayout == InitLayout /\ [][NextLayout]_vars

----------------------------------------------------------------------------
(* A flat view of the Count leaves of a scorer, used to state properties:  *)
(* one key per (task, domain, has_typo, completion rate, typo type).       *)

LeafKey(task, d, h, r, t) == [task |-> task, d |-> d, h |-> h, r |-> r, t |-> t]

LeafKeys(sc) ==
  {LeafKey("nwp", d, "", 0, TKNone) : d \in DOMAIN sc.nwp_c}
    \cup {LeafKey("acp", l[1], l[2], l[3], TKNone) : l \in AcpLeaves(sc.acp_c)}
    \cup {LeafKey("acr", l[1], "", 0, l[2]) : l \in AcrLeaves(sc.acr_c)}
    \cup {LeafKey("swp", d, "", 0, TKNone) : d \in DOMAIN sc.swp_c}

LeafCount(sc, k) ==
  IF k \notin LeafKeys(sc) THEN Count0
  ELSE IF k.task = "nwp" THEN sc.nwp_c[k.d]
  ELSE IF k.task = "acp" THEN sc.acp_c[k.d][k.h][k.r]
  ELSE IF k.task = "acr" THEN sc.acr_c[k.d][k.t]
  ELSE sc.swp_c[k.d]

TotalRecorded(sc) == SumSet([k \in LeafKeys(sc) |-> LeafCount(sc, k).total], LeafKeys(sc))

RecordOps == {"nwp", "acp", "acr", "swp"}

(* the Count a record call addresses *)
Addressed(l) ==
  IF l.op = "nwp" THEN LeafKey("nwp", l.domain, "", 0, TKNone)
  ELSE IF l.op = "swp" THEN LeafKey("swp", l.domain, "", 0, TKNone)
  ELSE IF l.op = "acp"
    THEN LeafKey("acp", l.domain,
                 IF startswith(l.true_word, l.partial_word) THEN WITHOUT_TYPO ELSE WITH_TYPO,
                 completion_rate(l.partial_word, l.true_word), TKNone)
  ELSE LeafKey("acr", l.domain, "", 0, typo_type_of(l.typos))

Bit(b) == IF b THEN 1 ELSE 0

----------------------------------------------------------------------------
(* C1: each record operation (nwp, acp, acr, swp), on any prediction list  *)
(* including the empty one, adds exactly 1 to the total of the Count it    *)
(* addresses, adds 1 to correct iff the list is non-empty and its first    *)
(* element is the expected word, adds 1 to correct_3 iff the expected word *)
(* is among the first 3 predictions, and changes no other Count.           *)
C1_RecordStep ==
  (last'.op \in RecordOps) =>
    LET l == last'
        pre == scorers[l.s]
        post == scorers'[l.s]
        k == Addressed(l)
        p == l.predicted_words
        first == Len(p) > 0 /\ p[1] = l.true_word
        top3 == \E i \in 1..3 : i <= Len(p) /\ p[i] = l.true_word
    IN /\ LeafCount(post, k).total = LeafCount(pre, k).total + 1
       /\ LeafCount(post, k).correct = LeafCount(pre, k).correct + Bit(first)
       /\ LeafCount(post, k).correct_3 = LeafCount(pre, k).correct_3 + Bit(top3)
       /\ LeafKeys(post) = LeafKeys(pre) \cup {k}
       /\ \A k2 \in LeafKeys(pre) \ {k} : LeafCount(post, k2) = LeafCount(pre, k2)
       /\ \A o \in (DOMAIN scorers) \ {l.s} : scorers'[o] = scorers[o]

C1_Record == [][C1_RecordStep]_vars

(* a second outcome with an empty prediction list was recorded on a Count  *)
C1_Witness ==
  /\ last.op = "swp"
  /\ last.predicted_words = <<>>
  /\ LeafCount(scorers[last.s], Addressed(last)) = Count(0, 0, 2)

----------------------------------------------------------------------------
(* C2: self.add(other) deep-merges: every key path of other holds the      *)
(* field-wise sum of self's Count (zero when absent) and other's; key      *)
(* paths only in self keep their Count; the memory / runtime lists are     *)
(* concatenated; mistake frequencies are summed per expected word; other   *)
(* is left unmodified.                                                     *)
PerfLists ==
  {"nwp_memories", "acp_memories", "acr_memories", "swp_memories",
   "nwp_runtimes", "acp_runtimes", "acr_runtimes", "swp_runtimes"}

MistakeCounters == {"nwp_mistakes", "acp_mistakes", "acr_mistakes", "swp_mistakes"}

C2_AddStep ==
  (last'.op = "add") =>
    LET self == scorers[last'.s]
        other == scorers[last'.other]
        post == scorers'[last'.s]
    IN /\ LeafKeys(post) = LeafKeys(self) \cup LeafKeys(other)
       /\ \A k \in LeafKeys(other) :
            /\ LeafCount(post, k).correct = LeafCount(self, k).correct + LeafCount(other, k).correct
            /\ LeafCount(post, k).correct_3 = LeafCount(self, k).correct_3 + LeafCount(other, k).correct_3
            /\ LeafCount(post, k).total = LeafCount(self, k).total + LeafCount(other, k).total
       /\ \A k \in LeafKeys(self) \ LeafKeys(other) : LeafCount(post, k) = LeafCount(self, k)
       /\ \A f \in PerfLists : post[f] = self[f] \o other[f]
       /\ \A f \in MistakeCounters : \A w \in {W1, W2} :
            CounterGet(post[f], w) = CounterGet(self[f], w) + CounterGet(other[f], w)
       /\ scorers'[last'.other] = other

C2_Add == [][C2_AddStep]_vars

(* a second merge: a key path with outcomes on both sides, a key path held *)
(* by self only, and non-empty performance lists on both sides             *)
C2_Witness ==
  /\ last.op = "add"
  /\ hist.add = 2
  /\ LET acc == scorers["acc"]
         scr == scorers["scr"]
     IN /\ \E k \in LeafKeys(scr) :
             LeafCount(scr, k).total > 0 /\ LeafCount(acc, k).total > LeafCount(scr, k).total
        /\ LeafKeys(acc) \ LeafKeys(scr) # {}
        /\ \E f \in PerfLists : scr[f] # <<>> /\ Len(acc[f]) > Len(scr[f])

----------------------------------------------------------------------------
(* C4: set_domain(d) moves the None entry of each task structure that has  *)
(* one to key d, replacing what was stored under d; afterwards no          *)
(* structure has a None key, the entries of the other domains are          *)
(* unchanged, a structure without a None key is untouched, and a second    *)
(* set_domain call changes nothing.                                        *)
Structures == {"nwp_c", "acp_c", "acr_c", "swp_c"}

C4_SetDomainStep ==
  (last'.op \in {"set_domain", "set_domain_again"}) =>
    LET pre == scorers[last'.s]
        post == scorers'[last'.s]
        d == last'.domain
    IN /\ \A f \in Structures :
            /\ None \notin DOMAIN post[f]
            /\ IF None \in DOMAIN pre[f]
               THEN /\ DOMAIN post[f] = ((DOMAIN pre[f]) \ {None}) \cup {d}
                    /\ post[f][d] = pre[f][None]
                    /\ \A k \in (DOMAIN pre[f]) \ {None, d} : post[f][k] = pre[f][k]
               ELSE post[f] = pre[f]
       /\ (last'.op = "set_domain_again") => post = pre

C4_SetDomain == [][C4_SetDomainStep]_vars

(* two outcomes were recorded, under None and under the target domain,     *)
(* set_domain left only the one recorded under None, and a second          *)
(* set_domain call was made                                                *)
C4_Witness ==
  /\ last.op = "set_domain_again"
  /\ hist.rec = 2 /\ hist.add = 0
  /\ TotalRecorded(scorers["scr"]) = 1

----------------------------------------------------------------------------
(* The metric blocks of a score() result.                                  *)

Range(f) == {f[x] : x \in DOMAIN f}

Tasks == {"next_word_prediction", "auto_completion", "auto_correction", "swipe_resolution"}

AccBlocks(r) ==
  {r.next_word_prediction.score, r.auto_completion.score, r.swipe_resolution.score}
    \cup Range(r.next_word_prediction.per_domain)
    \cup Range(r.auto_completion.per_domain)
    \cup Range(r.swipe_resolution.per_domain)
    \cup Range(r.auto_completion.per_completion_rate)
    \cup Range(r.auto_completion.per_other)

PRBlocks(r) ==
  {r.auto_correction.score}
    \cup Range(r.auto_correction.per_domain)
    \cup Range(r.auto_correction.per_typo_type)
    \cup Range(r.auto_correction.per_number_of_typos)

PerfEntries(r) == UNION {Range(r[t].performances) : t \in Tasks}

AccZero(b) == b.accuracy = F0 /\ b.top3_accuracy = F0 /\ b.n = 0

PRZero(b) ==
  /\ b.accuracy = F0 /\ b.precision = F0 /\ b.recall = F0 /\ b.fscore = F0
  /\ b.top3_accuracy = F0 /\ b.top3_precision = F0 /\ b.top3_recall = F0 /\ b.top3_fscore = F0
  /\ b.n_typo = 0 /\ b.n = 0

AsConstructed == hist.rec = 0 /\ hist.add = 0 /\ ~hist.tagged

----------------------------------------------------------------------------
(* C5: with human_readable=False, score() reports every performances       *)
(* entry (mean / min / max memory, mean / fastest / slowest runtime) as    *)
(* the raw number, not as a unit-formatted string.                         *)
C5_RawPerformances ==
  (last.op = "score" /\ ~scorers[last.s].human_readable /\ ~res.raised) =>
    \A e \in PerfEntries(res) : e.kind = "num"

----------------------------------------------------------------------------
(* C6: score() never raises, and reports 0 for every ratio whose           *)
(* denominator is zero (accuracy, precision, recall, F-beta, the           *)
(* redistributed no-typo counts), in every state reached through record,   *)
(* add and set_domain calls.                                               *)
C6_ScoreNeverRaises ==
  (last.op = "score") =>
    /\ ~res.raised
    /\ ~IsErr(res.overall_score)
    /\ \A e \in PerfEntries(res) : ~IsErr(e.value)
    /\ \A b \in AccBlocks(res) :
         /\ ~IsErr(b.accuracy) /\ ~IsErr(b.top3_accuracy)
         /\ (b.n = 0) => AccZero(b)
    /\ \A b \in PRBlocks(res) :
         /\ \A f \in {"accuracy", "precision", "recall", "fscore", "top3_accuracy",
                      "top3_precision", "top3_recall", "top3_fscore"} : ~IsErr(b[f])
         /\ (b.n = 0) => PRZero(b)
         /\ (b.n_typo = 0) => /\ b.recall = F0 /\ b.top3_recall = F0
                              /\ b.precision = F0 /\ b.top3_precision = F0
         /\ (b.precision = F0 /\ b.recall = F0) => b.fscore = F0
         /\ (b.top3_precision = F0 /\ b.top3_recall = F0) => b.top3_fscore = F0
    /\ LET sc == scorers[last.s]
           K == {k \in LeafKeys(sc) : k.task = "acr"}
           Sum(S, f) == SumSet([k \in S |-> LeafCount(sc, k)[f]], S)
           typos == {k \in K : k.t # TKNone}
           clean == K \ typos
           tp == Sum(typos, "correct")
           fp == Sum(clean, "total") - Sum(clean, "correct")
       IN (tp + fp = 0) => res.auto_correction.score.precision = F0

(* a score over corrections that all had typos (no typo-free word, no      *)
(* next-word prediction) : several zero denominators at once               *)
C6_Witness ==
  /\ last.op = "score"
  /\ ~res.raised
  /\ res.auto_correction.score.n_typo > 0
  /\ res.auto_correction.score.n = res.auto_correction.score.n_typo
  /\ res.next_word_prediction.score.n = 0
  /\ hist.add > 0

----------------------------------------------------------------------------
(* C7: score() on a Scorer constructed with a list of domains and no       *)
(* recorded outcome returns, for each of the four tasks, a per_domain      *)
(* breakdown whose keys are exactly the given domains, each with all-zero  *)
(* metrics.                                                                *)
C7_EmptyScorerDomains ==
  (last.op = "score" /\ AsConstructed) =>
    LET given == Range(hist.domains[last.s])
    IN /\ ~res.raised
       /\ \A t \in Tasks : DOMAIN res[t].per_domain = given
       /\ \A t \in Tasks \ {"auto_correction"} : \A d \in given : AccZero(res[t].per_domain[d])
       /\ \A d \in given : PRZero(res.auto_correction.per_domain[d])

(* the accumulator built with two domains is scored before anything is     *)
(* recorded or merged                                                      *)
C7_Witness ==
  /\ last.op = "score"
  /\ AsConstructed
  /\ Len(hist.domains[last.s]) = 2
  /\ ~res.raised
  /\ DOMAIN res.swipe_resolution.per_domain = {"d1", "d2"}

----------------------------------------------------------------------------
(* C8: every auto-correction metric block of score() (global, per domain,  *)
(* per typo type, per number of typos) has precision <= 1 and recall <= 1, *)
(* and when precision and recall are both nonzero its fscore lies between  *)
(* the smaller and the larger of the two; the same for the top-3 metrics.  *)
Between(p, r, f) == (p # F0 /\ r # F0) => FLe(FMin(p, r), f) /\ FLe(f, FMax(p, r))

C8_PrecisionRecallBounds ==
  (last.op = "score") =>
    /\ ~res.raised
    /\ \A b \in PRBlocks(res) :
         /\ \A f \in {"precision", "recall", "fscore", "top3_precision", "top3_recall", "top3_fscore"} :
              ~IsErr(b[f])
         /\ FLe(b.precision, F1) /\ FLe(b.recall, F1)
         /\ FLe(b.top3_precision, F1) /\ FLe(b.top3_recall, F1)
         /\ Between(b.precision, b.recall, b.fscore)
         /\ Between(b.top3_precision, b.top3_recall, b.top3_fscore)

(* a block whose precision and recall are nonzero and differ *)
C8_Witness ==
  /\ last.op = "score"
  /\ ~res.raised
  /\ \E b \in PRBlocks(res) :
       /\ b.precision # F0 /\ b.recall # F0 /\ b.precision # b.recall
       /\ FLt(b.precision, F1)

----------------------------------------------------------------------------
(* C9: acr files an outcome under None when the typo list is empty, under  *)
(* the single Typo when it has one element, under the length of the list   *)
(* when it has two or more; score() reports the single-Typo buckets under  *)
(* per_number_of_typos "1", the bucket 2 under "2" and every bucket        *)
(* greater than 2 under "3+".                                              *)
C9_AcrStep ==
  (last'.op = "acr") =>
    LET t == last'.typos
        k == LeafKey("acr", last'.domain, "", 0,
                     IF Len(t) = 0 THEN [kind |-> "none", typo |-> "", n |-> 0]
                     ELSE IF Len(t) = 1 THEN [kind |-> "typo", typo |-> t[1], n |-> 0]
                     ELSE [kind |-> "int", typo |-> "", n |-> Len(t)])
    IN LeafCount(scorers'[last'.s], k).total = LeafCount(scorers[last'.s], k).total + 1

C9_Buckets ==
  (last.op = "score") =>
    LET sc == scorers[last.s]
        K == {k \in LeafKeys(sc) : k.task = "acr"}
        Sum(S, f) == SumSet([k \in S |-> LeafCount(sc, k)[f]], S)
        singles == {k \in K : k.t.kind = "typo"}
        twos == {k \in K : k.t.kind = "int" /\ k.t.n = 2}
        more == {k \in K : k.t.kind = "int" /\ k.t.n > 2}
        per == res.auto_correction.per_number_of_typos
        Holds(b, S) ==
          /\ b.n_typo = Sum(S, "total")
          /\ b.recall = round_to_n(recall(Sum(S, "correct"), Sum(S, "total") - Sum(S, "correct")), 2)
          /\ b.top3_recall = round_to_n(recall(Sum(S, "correct_3"), Sum(S, "total") - Sum(S, "correct_3")), 2)
    IN /\ ~res.raised
       /\ Holds(per.one, singles)
       /\ Holds(per.two, twos)
       /\ Holds(per.threeplus, more)

C9_TypoBuckets == [][C9_AcrStep]_vars /\ []C9_Buckets

(* corrections with one, two and three typos were recorded, then scored *)
C9_Witness ==
  /\ last.op = "score"
  /\ ~res.raised
  /\ res.auto_correction.per_number_of_typos.one.n_typo > 0
  /\ res.auto_correction.per_number_of_typos.two.n_typo > 0
  /\ res.auto_correction.per_number_of_typos.threeplus.n_typo > 0

----------------------------------------------------------------------------
(* C3: Count addition is commutative with field-wise sums, and adding a    *)
(* set of per-sentence scorers to an accumulator in any order gives the    *)
(* same nested counts, hence the same score() metrics, performances aside. *)
HeldCounts == UNION {{LeafCount(scorers[s], k) : k \in LeafKeys(scorers[s])} : s \in DOMAIN scorers}

Metrics(r) ==
  [raised |-> r.raised,
   overall_score |-> r.overall_score,
   tasks |-> [t \in Tasks |-> [x \in (DOMAIN r[t]) \ {"performances"} |-> r[t][x]]]]

SameSentences(a, b) ==
  {hist.into[a][k] : k \in 1..Len(hist.into[a])} = {hist.into[b][k] : k \in 1..Len(hist.into[b])}

C3_MergeOrder ==
  /\ \A x \in HeldCounts : \A y \in HeldCounts :
       /\ Count_add(x, y) = Count_add(y, x)
       /\ Count_add(x, y).correct = x.correct + y.correct
       /\ Count_add(x, y).correct_3 = x.correct_3 + y.correct_3
       /\ Count_add(x, y).total = x.total + y.total
  /\ SameSentences("acc", "alt") =>
       \A f \in Structures : scorers["acc"][f] = scorers["alt"][f]
  /\ (last.op = "score_pair") =>
       /\ ~res.first.raised /\ ~res.second.raised
       /\ Metrics(res.first) = Metrics(res.second)

(* both accumulators received the three scorers, in different orders, two  *)
(* of which hold an outcome under the same key path                        *)
C3_Witness ==
  /\ last.op = "score_pair"
  /\ hist.into["acc"] # hist.into["alt"]
  /\ hist.into["acc"][1] = "thd"
  /\ \E k \in LeafKeys(scorers["acc"]) :
       /\ LeafCount(scorers["acc"], k).total = 2
       /\ LeafCount(scorers["acc"], k).correct_3 = 2
       /\ LeafCount(scorers["scr"], k).total = 1

----------------------------------------------------------------------------
(* C10: for a fixed seed, dataset and deterministic corrector, the         *)
(* dictionary a run of Oracle.test returns, its measured performances      *)
(* left out, is the one the first run returned, whatever the number of     *)
(* workers of either run and whatever the order in which the pool handed   *)
(* the per-sentence Scorers back.                                          *)
C10_SameResults ==
  (last.op = "test" /\ hist.run >= 2) => WithoutPerformances(res) = hist.first

(* the same, for the scores alone *)
C10_SameScores ==
  (last.op = "test" /\ hist.run >= 2) =>
     [x \in Tasks \cup {"raised", "overall_score"} |-> WithoutPerformances(res)[x]]
       = [x \in Tasks \cup {"raised", "overall_score"} |-> hist.first[x]]

----------------------------------------------------------------------------
(* C11: type_till_space(words), for a non-empty list of words, types the   *)
(* words in order and returns right after the first word whose separator   *)
(* is typed with no typo, without the separator; a noisy separator is      *)
(* appended with its labels and typing goes on with the next word, up to   *)
(* the end of the list; the count returned is the number of words typed,   *)
(* between 1 and len(words).                                               *)

(* a string typed on its own: typos first, the taps next *)
Typed(self, word, error_free, g) ==
  Strict(_introduce_typos(self, word, error_free, g), LAMBDA noisy :
  Strict(_fuzzy_type(self, noisy.noisy_word, error_free, noisy.g), LAMBDA typed :
    [keystrokes |-> typed.keystrokes, typed_word |-> typed.fuzzy_word,
     typos |-> noisy.typos \o typed.typos, g |-> typed.g]))

(* every word of the list followed by its separator, one after the other *)
RECURSIVE Passes(_, _, _)
Passes(self, words, g) ==
  IF words = <<>> THEN <<>>
  ELSE Strict(Typed(self, Head(words), ~_is_correctable(Head(words)), g), LAMBDA word :
       Strict(Typed(self, SPACE, FALSE, word.g), LAMBDA space :
         <<[word |-> word, space |-> space]>> \o Passes(self, Tail(words), space.g)))

(* the first word followed by a clean separator, the last word otherwise *)
StopsAt(passes) ==
  IF \E k \in 1..Len(passes) : passes[k].space.typos = <<>>
  THEN CHOOSE k \in 1..Len(passes) :
         passes[k].space.typos = <<>> /\ \A j \in 1..(k - 1) : passes[j].space.typos # <<>>
  ELSE Len(passes)

(* what has been typed once pass n is over: field f of the words up to n   *)
(* and of the noisy separators                                             *)
RECURSIVE Output(_, _, _)
Output(passes, n, f) ==
  IF n = 0 THEN <<>>
  ELSE Output(passes, n - 1, f) \o passes[n].word[f]
         \o (IF passes[n].space.typos # <<>> THEN passes[n].space[f] ELSE <<>>)

TypeTillSpaceStops(passes, n) ==
  /\ 1 <= res.n_word_typed /\ res.n_word_typed <= Len(last.words)
  /\ res.n_word_typed = n
  /\ res.typed_word = Output(passes, n, "typed_word")
  /\ res.keystrokes = Output(passes, n, "keystrokes")
  /\ res.typos = Output(passes, n, "typos")

C11_TypeTillSpace ==
  last.op = "type_till_space" =>
    TypeTillSpaceStops(Passes(hist.noisy, last.words, hist.g),
                       StopsAt(Passes(hist.noisy, last.words, hist.g)))

(* two words typed out of three: a noisy separator, then a clean one *)
C11_Witness ==
  /\ last.op = "type_till_space"
  /\ Len(last.words) = 3
  /\ res.n_word_typed = 2
  /\ \E k \in 1..Len(res.typed_word) : res.typed_word[k] # " "

----------------------------------------------------------------------------
(* C12: with DELETE_CHAR at probability 1 and every other typo at 0,       *)
(* _introduce_typos on a word of two or more letters of the default layer  *)
(* deletes every character but the last, with one DELETE_CHAR label per    *)
(* deletion, whatever the numbers drawn.                                   *)

DefaultLetters(word) == \A i \in 1..Len(word) : IsLowerChar(word[i]) /\ LayerOf(word[i]) = 0

OnlyDeleteChar ==
  /\ last.op = "_introduce_typos"
  /\ ~last.error_free
  /\ hist.noisy.probs = Only("DELETE_CHAR")
  /\ Len(last.word) >= 2
  /\ DefaultLetters(last.word)

C12_DeleteAllButLast ==
  OnlyDeleteChar =>
    /\ res.noisy_word = <<last.word[Len(last.word)]>>
    /\ res.typos = [k \in 1..(Len(last.word) - 1) |-> "DELETE_CHAR"]

(* C12, amended: every character that is neither the first nor the last is *)
(* deleted, the last one is kept, and the first one is deleted only when   *)
(* the number drawn for it is under 0.36; one DELETE_CHAR label per        *)
(* deletion.                                                               *)
DeletedButFront(front) ==
  /\ res.noisy_word = (IF front THEN <<>> ELSE <<last.word[1]>>) \o <<last.word[Len(last.word)]>>
  /\ res.typos = [k \in 1..(Len(last.word) - (IF front THEN 1 ELSE 2)) |-> "DELETE_CHAR"]

C12_DeleteButFront ==
  OnlyDeleteChar => DeletedButFront(Drawn(Step(hist.g)) * 100 < 36 * Unit)

(* "okn" typed "on": the first letter kept, the second deleted *)
C12_Witness ==
  /\ OnlyDeleteChar
  /\ Len(last.word) = 3
  /\ res.noisy_word = <<last.word[1], last.word[3]>>
  /\ res.typos = <<"DELETE_CHAR">>

----------------------------------------------------------------------------
(* C13: swipe(word) returns None exactly when the word contains no letter  *)
(* or yields at most one usable keystroke; for every other word it returns *)
(* a gesture path.                                                         *)

(* the keystrokes that are not None *)
Usable(keystrokes) == Cardinality({k \in 1..Len(keystrokes) : keystrokes[k] # NoKeystroke})

IsPath(gesture) == gesture # <<>> /\ \A k \in 1..Len(gesture) : Len(gesture[k]) = 2

C13_SwipeNone ==
  last.op = "swipe" =>
    /\ res.gesture = <<>> <=> (~_is_correctable(last.word) \/ Usable(res.keystrokes) <= 1)
    /\ res.gesture # <<>> => IsPath(res.gesture)

(* C13, amended: swipe(word) returns None exactly when the word has at     *)
(* most one character or one of its characters has no keystroke, being     *)
(* absent from the layout or on another layer than the default one; for    *)
(* every other word, with or without a letter, it returns a gesture path.  *)
C13_SwipeNoneOffLayer ==
  last.op = "swipe" =>
    /\ res.gesture = <<>> <=>
         (Len(last.word) <= 1 \/ \E i \in 1..Len(last.word) : LayerOf(last.word[i]) # 0)
    /\ res.gesture # <<>> => IsPath(res.gesture)

(* a gesture for a word of two characters without a letter *)
C13_Witness ==
  /\ last.op = "swipe"
  /\ ~_is_correctable(last.word)
  /\ Len(last.word) = 2
  /\ IsPath(res.gesture)

----------------------------------------------------------------------------
(* C14: the points swipe(word) gives to the gesture generation are the     *)
(* exact centres of the keys of the word's characters, for every word and  *)
(* every tuning of the Gaussians.                                          *)

Centre(char) == get_key_info(char).center

C14_SwipeCentres ==
  (last.op = "swipe" /\ res.gesture # <<>>) =>
    \A k \in 1..Len(last.word) : res.keystrokes[k] = Centre(last.word[k])

(* C14, amended: the points are the exact key centres when the word has no *)
(* letter; for a word with a letter each point is sampled as a tap is, two *)
(* numbers drawn per character in order, around the key centre moved by    *)
(* the offsets, with deviations of half the key size over the ratios; so   *)
(* they are the centres when the offsets are zero and the ratios infinite. *)
Tap(self, char, gx, gy) ==
  <<Centre(char)[1] + self.x_offset + Deviate(Drawn(gx)) * Sigma(get_key_info(char).width, self.x_ratio),
    Centre(char)[2] + self.y_offset + Deviate(Drawn(gy)) * Sigma(get_key_info(char).height, self.y_ratio)>>

C14_SwipeSampled ==
  (last.op = "swipe" /\ res.gesture # <<>>) =>
    /\ \A k \in 1..Len(last.word) :
         res.keystrokes[k] =
           IF _is_correctable(last.word)
           THEN Tap(hist.noisy, last.word[k], StepN(hist.g, 2 * k - 1), StepN(hist.g, 2 * k))
           ELSE Centre(last.word[k])
    /\ (hist.noisy.x_offset = 0 /\ hist.noisy.y_offset = 0 /\ hist.noisy.x_ratio = Infinity
          /\ hist.noisy.y_ratio = Infinity)
         => \A k \in 1..Len(last.word) : res.keystrokes[k] = Centre(last.word[k])

(* a gesture through a point that is not the centre of its key, with no    *)
(* offset                                                                  *)
C14_Witness ==
  /\ last.op = "swipe"
  /\ res.gesture # <<>>
  /\ hist.noisy.x_offset = 0
  /\ \E k \in 1..Len(last.word) : res.keystrokes[k] # Centre(last.word[k])

----------------------------------------------------------------------------
(* C16: get_key(position, layer) returns the character of the first key of *)
(* the layer, in layout order, whose box contains the position, bounds     *)
(* included; when no box of the layer contains it, the character of the    *)
(* key whose centre is the nearest, the first such key on ties.            *)

Inside(pos, key) ==
  /\ key.bounds.left <= pos[1] /\ pos[1] <= key.bounds.right
  /\ key.bounds.top <= pos[2] /\ pos[2] <= key.bounds.bottom

(* the square of twice the distance from the position to the key's centre *)
Apart(pos, key) ==
  (2 * pos[1] - key.bounds.left - key.bounds.right) * (2 * pos[1] - key.bounds.left - key.bounds.right)
    + (2 * pos[2] - key.bounds.top - key.bounds.bottom) * (2 * pos[2] - key.bounds.top - key.bounds.bottom)

FirstContainingOrNearest(pos, klayer, char) ==
  \E i \in 1..Len(klayer) :
    /\ klayer[i].char = char
    /\ \/ /\ Inside(pos, klayer[i])
          /\ \A j \in 1..(i - 1) : ~Inside(pos, klayer[j])
       \/ /\ \A j \in 1..Len(klayer) : ~Inside(pos, klayer[j])
          /\ \A j \in 1..Len(klayer) : Apart(pos, klayer[i]) <= Apart(pos, klayer[j])
          /\ \A j \in 1..(i - 1) : Apart(pos, klayer[i]) < Apart(pos, klayer[j])

C16_GetKey ==
  last.op = "get_key" =>
    FirstContainingOrNearest(last.position, klayers_info(last.klayer_id), res.key)

(* a position outside every box of the layer and at the same distance from *)
(* two centres, which gives the first of the two keys                      *)
C16_Witness ==
  /\ last.op = "get_key"
  /\ \E i, j \in 1..Len(klayers_info(last.klayer_id)) :
       /\ i < j
       /\ \A h \in 1..Len(klayers_info(last.klayer_id)) :
            ~Inside(last.position, klayers_info(last.klayer_id)[h])
       /\ Apart(last.position, klayers_info(last.klayer_id)[i])
            = Apart(last.position, klayers_info(last.klayer_id)[j])
       /\ res.key = klayers_info(last.klayer_id)[i].char

----------------------------------------------------------------------------
(* C17: in _fuzzy_type a character that is not on the default layer 0,     *)
(* absent from the layout or on another layer, is typed unchanged with the *)
(* keystroke None and no SUBSTITUTE_CHAR label, and the failed lookup does *)
(* not propagate: the call returns one keystroke and one character per     *)
(* character of the word; only a character of layer 0 gets a keystroke or  *)
(* is substituted.                                                         *)

Substituted(word, fuzzy_word) == {k \in 1..Len(word) : fuzzy_word[k] # word[k]}

----------------------------------------------------------------------------
(* C18: in _introduce_typos, once TRANSPOSE_CHAR has fired at a position,  *)
(* the character pushed to the next position is typed as it is when the    *)
(* loop reaches it, with no further typo: one transposition gives exactly  *)
(* one label and moves a character by exactly one position.  When          *)
(* TRANSPOSE_CHAR is the only typo that can fire, the noisy word is then   *)
(* the word with some disjoint pairs of neighbours swapped, with one label *)
(* per pair.                                                               *)

(* the word with the characters at s and s + 1 swapped, for every s in S *)
Swapped(word, S) ==
  [k \in 1..Len(word) |->
     IF k \in S THEN word[k + 1] ELSE IF k - 1 \in S THEN word[k - 1] ELSE word[k]]

Disjoint(S) == \A s \in S : s + 1 \notin S

C18_TransposedOnce ==
  (/\ last.op = "_introduce_typos"
   /\ ~last.error_free
   /\ hist.noisy.probs = Only("TRANSPOSE_CHAR")
   /\ DefaultLetters(last.word)) =>
     \E S \in SUBSET (1..(Len(last.word) - 1)) :
       /\ Disjoint(S)
       /\ res.noisy_word = Swapped(last.word, S)
       /\ res.typos = [k \in 1..Cardinality(S) |-> "TRANSPOSE_CHAR"]

----------------------------------------------------------------------------
(* C15: for every sentence processed by tester, the number of next-word    *)
(* predictions recorded is the number of boundaries between the words of   *)
(* the tokenized sentence, its word count minus one, and no next-word      *)
(* prediction is requested after the final word.                           *)

C15_NwpPerBoundary ==
  last.op = "return" => score_nwp(res).score.n = hist.n_words - 1

(* C15, amended: the number of next-word predictions recorded is the word  *)
(* count minus one, minus the number of words that type_till_space typed   *)
(* together with the word before them because the separator between them   *)
(* was typed with a typo; it is the word count minus one when every        *)
(* separator between two words is typed clean, and never more; no          *)
(* next-word prediction is requested after the final word.                 *)
C15_NwpPerTypedUnit ==
  /\ last.op = "return" =>
       /\ score_nwp(res).score.n = hist.n_words - 1 - hist.joined
       /\ score_nwp(res).score.n <= hist.n_words - 1
  /\ last.op = "iteration" =>
       score_nwp(scorers.scr).score.n
         = (hist.n_words - Len(hist.words)) - hist.joined - (IF hist.words = <<>> THEN 1 ELSE 0)

(* a sentence of three words or more whose words were typed in fewer       *)
(* iterations, two of them together                                        *)
C15_Witness ==
  /\ last.op = "return"
  /\ hist.n_words >= 3
  /\ hist.joined = 1
  /\ score_nwp(res).score.n = hist.n_words - 2

----------------------------------------------------------------------------
(* C19: in the loop of tester the random state is saved and restored so    *)
(* that the swipe step does not perturb the generation of the noise: what  *)
(* type_till_space returns (keystrokes, typed string, typo labels, number  *)
(* of words) is the same whether or not the swipe roll succeeded and a     *)
(* gesture was generated in the iteration, that is, what it returns from   *)
(* the state of the generator right after the roll.                        *)

SameTyping(a, b) ==
  /\ a.keystrokes = b.keystrokes
  /\ a.typed_word = b.typed_word
  /\ a.typos = b.typos
  /\ a.n_word_typed = b.n_word_typed

C19_SwipeKeepsTyping ==
  (last.op = "iteration" /\ res.roll.v) =>
    SameTyping(res.typed, type_till_space(hist.noisy, last.words, res.roll.g))

----------------------------------------------------------------------------
(* C20: when the same expected word is missed several times, within one    *)
(* Scorer or across Scorers merged with add, the mistake counter keeps one *)
(* entry for the word, whose frequency is the total number of misses and   *)
(* whose predictions and context are those of the record merged in last.   *)

MistakesOf(s, task) == IF task = "nwp" THEN scorers[s].nwp_mistakes ELSE scorers[s].swp_mistakes

EntriesOf(s, task, word) ==
  {k \in 1..Len(MistakesOf(s, task)) : MistakesOf(s, task)[k].key.actual = word}

(* one entry per missed word with the total of its misses; kept(seen) is   *)
(* the record whose predictions and context the entry holds                *)
OneEntry(kept(_)) ==
  \A s \in ScorerIds : \A task \in MistakeTasks : \A word \in MissedWords :
    IF hist.seen[s][task][word].n = 0 THEN EntriesOf(s, task, word) = {}
    ELSE /\ Cardinality(EntriesOf(s, task, word)) = 1
         /\ \A k \in EntriesOf(s, task, word) :
              /\ MistakesOf(s, task)[k].n = hist.seen[s][task][word].n
              /\ MistakesOf(s, task)[k].key.preds = kept(hist.seen[s][task][word]).preds
              /\ MistakesOf(s, task)[k].key.context = kept(hist.seen[s][task][word]).context

LastOf(seen) == seen.last

FirstOf(seen) == seen.first

----------------------------------------------------------------------------
(* C21: for every word but the single space and every configuration of the *)
(* probabilities, _introduce_typos applies no deletion at the last         *)
(* character, so that the noisy word of a non-empty word is never empty:   *)
(* at most len(word) - 1 characters are deleted; for the single space      *)
(* DELETE_SPACE can apply and gives the empty string.                      *)

Labels(typos, kinds) == Cardinality({k \in 1..Len(typos) : typos[k] \in kinds})

C21_LastCharKept ==
  (last.op = "_introduce_typos" /\ ~last.error_free) =>
    /\ Len(res.noisy_word) = Len(last.word) - Labels(res.typos, DELETIONS) + Labels(res.typos, ADDITIONS)
    /\ last.word # SPACE =>
         /\ res.noisy_word # <<>>
         /\ Labels(res.typos, DELETIONS) <= Len(last.word) - 1
    /\ (last.word = SPACE /\ Labels(res.typos, DELETIONS) > 0) =>
         res.typos = <<"DELETE_SPACE">> /\ res.noisy_word = <<>>

(* a word of one letter kept whole where DELETE_CHAR has probability 1 *)
C21_Witness ==
  /\ last.op = "_introduce_typos"
  /\ ~last.error_free
  /\ hist.noisy.probs = Only("DELETE_CHAR")
  /\ Len(last.word) = 1
  /\ last.word # SPACE
  /\ res.noisy_word = last.word

(* the single space deleted *)
C21_WitnessSpace ==
  /\ last.op = "_introduce_typos"
  /\ last.word = SPACE
  /\ res.typos = <<"DELETE_SPACE">>
  /\ res.noisy_word = <<>>

----------------------------------------------------------------------------
(* C22: _fuzzy_type and type_till_space return one keystroke entry, a      *)
(* position or None, per character of the typed string they return, in the *)
(* order of the characters: the entries are as many as the characters, a   *)
(* position is one that the layout maps to the character of the same rank, *)
(* and None stands for a character that is not on the default layer.       *)

EntryPerChar(keystrokes, typed) ==
  /\ Len(keystrokes) = Len(typed)
  /\ \A k \in 1..Len(keystrokes) :
       IF keystrokes[k] = NoKeystroke THEN LayerOf(typed[k]) # 0
       ELSE get_key(keystrokes[k], 0) = typed[k]

C22_KeystrokePerChar ==
  /\ last.op = "_fuzzy_type" => EntryPerChar(res.keystrokes, res.fuzzy_word)
  /\ last.op = "type_till_space" => EntryPerChar(res.keystrokes, res.typed_word)

(* several words typed in one call, with a character that has no position *)
(* and one tapped on another key than its own                              *)
C22_Witness ==
  /\ last.op = "type_till_space"
  /\ res.n_word_typed > 1
  /\ \E k \in 1..Len(res.keystrokes) : res.keystrokes[k] = NoKeystroke
  /\ "SUBSTITUTE_CHAR" \in Range(res.typos)
  /\ EntryPerChar(res.keystrokes, res.typed_word)

----------------------------------------------------------------------------
(* C23: in score(), every recorded completion outcome is counted in        *)
(* exactly one of the four per_completion_rate buckets and in exactly one  *)
(* of the per_other entries, without_typo if and only if the expected word *)
(* starts with the partial word, so that the n of each breakdown add up to *)
(* the n of the auto-completion score.                                     *)

RateN(self) ==
  LET r == score_acp(self).per_completion_rate
  IN <<r.lt25.n, r.f25to50.n, r.f50to75.n, r.gt75.n>>

OtherN(self) ==
  LET o == score_acp(self).per_other
  IN <<o[WITHOUT_TYPO].n, o[WITH_TYPO].n>>

(* the bucket of a quotient len(partial_word) / len(true_word), in hundredths *)
BucketOf(partial_word, true_word) ==
  LET k == completion_rate(partial_word, true_word)
  IN IF k < 25 THEN 1 ELSE IF k < 50 THEN 2 ELSE IF k < 75 THEN 3 ELSE 4

C23_Sums ==
  (last.op = "score" /\ ~res.raised) =>
    LET a == res.auto_completion
        r == a.per_completion_rate
    IN /\ r.lt25.n + r.f25to50.n + r.f50to75.n + r.gt75.n = a.score.n
       /\ a.per_other[WITHOUT_TYPO].n + a.per_other[WITH_TYPO].n = a.score.n
       /\ a.score.n = SeqSum(RateN(scorers[last.s]))

C23_Step ==
  (last'.op = "acp" /\ last' # last) =>
    LET before == scorers[last'.s]
        after == scorers'[last'.s]
        b == BucketOf(last'.partial_word, last'.true_word)
        o == IF startswith(last'.true_word, last'.partial_word) THEN 1 ELSE 2
    IN /\ \A k \in 1..4 : RateN(after)[k] = RateN(before)[k] + Bit(k = b)
       /\ \A k \in 1..2 : OtherN(after)[k] = OtherN(before)[k] + Bit(k = o)
       /\ score_acp(after).score.n = score_acp(before).score.n + 1

C23_OneBucketEach == [][C23_Step]_vars /\ []C23_Sums

(* a score with the four buckets and both per_other entries filled *)
C23_Witness ==
  /\ last.op = "score"
  /\ ~res.raised
  /\ \A k \in 1..4 : RateN(scorers[last.s])[k] > 0
  /\ \A k \in 1..2 : OtherN(scorers[last.s])[k] > 0

----------------------------------------------------------------------------
(* C26: after any sequence of record (nwp, acp, acr, swp), add and         *)
(* set_domain operations from fresh Scorers, every Count leaf of every     *)
(* task structure has 0 <= correct <= correct_3 <= total.                  *)

Ordered(c) == 0 <= c.correct /\ c.correct <= c.correct_3 /\ c.correct_3 <= c.total

C26_CountsOrdered == \A c \in HeldCounts : Ordered(c)

(* after a merge, a leaf of the accumulator that holds a miss and a hit    *)
(* within the first three predictions only                                *)
C26_Witness ==
  /\ last.op = "add"
  /\ \E k \in LeafKeys(scorers["acc"]) :
       LET c == LeafCount(scorers["acc"], k)
       IN c.correct < c.correct_3 /\ c.correct_3 < c.total /\ Ordered(c)

----------------------------------------------------------------------------
(* C27: for every task and every Scorer reached through record, add and    *)
(* set_domain, the n of the global score returned by score() is the sum of *)
(* the n of the entries of the per_domain breakdown of the task.           *)

DomainN(t) == SumSet([d \in DOMAIN t.per_domain |-> t.per_domain[d].n], DOMAIN t.per_domain)

C27_GlobalIsSumOfDomains ==
  (last.op = "score" /\ ~res.raised) =>
    \A t \in Tasks : res[t].score.n = DomainN(res[t])

----------------------------------------------------------------------------
(* C28: every random choice the tester makes for a sentence (swipe roll,   *)
(* noise, partial word) depends on base_seed and the sentence only: what   *)
(* the corrector draws from the module-wide generator changes neither the  *)
(* noisy input nor the partial word of the same or of a later iteration.   *)
(* The choices of an iteration are those of the iteration run from the     *)
(* same saved state with a corrector that draws nothing.                   *)

Undisturbed ==
  tester_iteration(hist.noisy, hist.words, hist.context, scorers.scr, hist.rnd_state, hist.g,
                   CHOOSE perf \in Profiles : TRUE, 0)

C28_Step ==
  (last'.op = "iteration" /\ hist' # hist) =>
    /\ res'.roll = Undisturbed.roll
    /\ res'.swipe_gesture = Undisturbed.swipe_gesture
    /\ res'.typed = Undisturbed.typed
    /\ hist'.rnd_state = Undisturbed.rnd_state
    /\ res'.partial_word = Undisturbed.partial_word

C28_ChoicesFromSeedOnly == [][C28_Step]_vars

----------------------------------------------------------------------------
(* C29: the loop of tester terminates for every sentence: each iteration   *)
(* takes at least one word off the remaining words (type_till_space        *)
(* reports at least one word typed), so there are at most as many          *)
(* iterations as the sentence has words, and tester returns, with no word  *)
(* left unless the context has reached the cap of 256 characters.          *)

Iterations == hist.n_words - Len(hist.words) - hist.joined

C29_Step ==
  (last'.op = "iteration" /\ hist' # hist) =>
    /\ res'.typed.n_word_typed >= 1
    /\ Len(hist'.words) = Len(hist.words) - res'.typed.n_word_typed
    /\ Len(hist'.words) < Len(hist.words)

C29_Bounded ==
  /\ Iterations <= hist.n_words - Len(hist.words)
  /\ Iterations <= hist.n_words
  /\ last.op = "return" => (hist.words = <<>> \/ Len(hist.context) >= MAX_CHAR_PER_SENTENCE)

C29_Terminates == [][C29_Step]_vars /\ []C29_Bounded /\ <>(last.op = "return")

(* tester has returned after as many iterations as the sentence has words *)
C29_Witness ==
  /\ last.op = "return"
  /\ hist.n_words >= 3
  /\ Iterations = hist.n_words

----------------------------------------------------------------------------
(* C25: the runtime returned by profile_fn, and so by the profiled_*       *)
(* methods of Corrector, is in nanoseconds: the elapsed seconds times      *)
(* 10^9, that is the elapsed microseconds times 1000.                      *)

C25_Nanoseconds ==
  (last.op \in ProfiledMethods) => res.runtime = hist.elapsed * 1000

----------------------------------------------------------------------------
(* C24: in Oracle.test the entries put on the queue are as many as the     *)
(* workers of the pool (n_proc copies of the one corrector, or one entry   *)
(* per element of the list, n_proc being ignored then); the initializer of *)
(* each worker takes exactly one entry, so a worker holds one corrector    *)
(* for its whole life, no two workers get the same element of the list,    *)
(* and no initializer waits on an empty queue.                             *)

Initialized == {w \in DOMAIN hist.fn : hist.fn[w] \notin {NotInitialized, Blocked}}

C24_State ==
  (last.op # "init") =>
    /\ hist.processes = IF hist.corrector.is_list THEN Len(hist.corrector.c) ELSE hist.n_proc
    /\ Len(hist.queue) + Cardinality(Initialized) = hist.processes
    /\ \A w \in DOMAIN hist.fn : hist.fn[w] # Blocked
    /\ \A v, w \in Initialized : v # w => hist.fn[v].k # hist.fn[w].k
    /\ \A w \in Initialized :
         hist.fn[w].corrector = IF hist.corrector.is_list THEN hist.corrector.c[hist.fn[w].k]
                                ELSE hist.corrector.c

C24_Step ==
  /\ \A w \in Initialized : hist'.fn[w] = hist.fn[w]
  /\ last'.op = "init_tester" => Len(hist'.queue) = Len(hist.queue) - 1
  /\ last'.op = "tester" => last'.corrector = hist.fn[last'.w]

C24_OneCorrectorPerWorker == []C24_State /\ [][C24_Step]_vars

(* a list of three correctors with another n_proc: the three workers hold  *)
(* one each, the queue is empty and tester has run                         *)
C24_Witness ==
  /\ last.op = "tester"
  /\ hist.corrector.is_list
  /\ hist.n_proc # Len(hist.corrector.c)
  /\ Cardinality(Initialized) = 3
  /\ hist.queue = <<>>

----------------------------------------------------------------------------
(* C30: for any keyboard layout the ids that LayoutHelper gives to the     *)
(* virtual layers of accents are pairwise distinct and differ from the id  *)
(* of every native layer: the key list of a virtual layer holds the        *)
(* accents of one button and nothing else, and get_key on a native layer   *)
(* returns a character of a button of that layer, never an accent put      *)
(* there when the virtual layers were made.                                *)

(* the ids of the layers of the layout that the helper has read *)
NativeIds ==
  {hist.layout[l].id :
     l \in {x \in 1..Len(hist.layout) :
              hist.ignore_layers_after = <<>> \/ hist.layout[x].id <= hist.ignore_layers_after[1]}}

NativeChars(id) ==
  UNION {{hist.layout[l].buttons[b].labels[1] : b \in 1..Len(hist.layout[l].buttons)} :
           l \in {x \in 1..Len(hist.layout) : hist.layout[x].id = id}}

C30_VirtualLayersApart ==
  (last.op \in {"LayoutHelper", "get_key"}) =>
    /\ \A i, j \in 1..Len(hist.virtual) : i # j => hist.virtual[i].id # hist.virtual[j].id
    /\ \A i \in 1..Len(hist.virtual) :
         /\ hist.virtual[i].id \notin NativeIds
         /\ [k \in 1..Len(hist.klayers_info[hist.virtual[i].id]) |->
               hist.klayers_info[hist.virtual[i].id][k].char] = hist.virtual[i].accents
    /\ (last.op = "get_key" /\ last.klayer_id \in NativeIds) =>
         res.key \in NativeChars(last.klayer_id)

====
